---- MODULE Spec2Model ----
(***************************************************************************)
(* Model of the K-index exporter (src/ENT_Kindex.py): the record parser    *)
(* read_iaga2002, the quality filter preprocess_data, the window           *)
(* aggregator and quantizer calculate_k_index, the gauge expose_k_index    *)
(* and the polling loop main_loop; and of the fuller parser read_iaga2002   *)
(* and the polling loop main_loop of src/test.py, which writes its results *)
(* to InfluxDB.                                                            *)
(*                                                                         *)
(* Encodings.  Field values are integers (nT).  A missing value (pandas    *)
(* NaN) is the integer NaN, which lies outside the range of field values;  *)
(* every operator that touches values treats it as numpy/pandas treat NaN. *)
(* Timestamps are epoch seconds.  K-index values are held in hundredths:   *)
(* 0.25 is 25 and the levels 1..9 are 100..900.  A scaled threshold        *)
(* base*k9/500.0 is compared with a statistic v as base*k9 <= 500*v, which *)
(* is exact for integer statistics.                                        *)
(***************************************************************************)
EXTENDS Integers, Sequences, FiniteSets, TLC

VARIABLES
    pc,          \* position of main_loop inside one cycle
    files,       \* raw files returned by get_ftp_files in this cycle
    fi,          \* index of the next file of the for loop
    batch,       \* all_data as merged from the files (input of preprocess_data)
    all_data,    \* all_data as the cycle currently holds it
    components,  \* resolved component labels, <<>> while None
    variations,  \* calculate_k_index: disturbance statistic per block
    blocks,      \* calculate_k_index: np.unique(hour_blocks)
    anchor,      \* calculate_k_index: day_seconds_start_utc
    k_indices,   \* K-index per block, in hundredths
    k_times,     \* timestamp per block
    outcome,     \* how the last finished cycle ended
    slept,       \* seconds of the last time.sleep
    gauge,       \* k_index_gauge for the station, 0 while never set
    gauge0,      \* the gauge as it was when the cycle began
    q_pc,        \* quantizer harness: "pick" or "done"
    q_s,         \* quantizer harness: disturbance statistic
    q_k9,        \* quantizer harness: K9 limit
    q_k,         \* quantizer harness: K-index returned, in hundredths
    q_k2,        \* quantizer harness: K-index of the doubled statistic and limit
    p_pc,        \* parser harness: "call", "read" or "done"
    p_file,      \* parser harness: the raw file
    p_out,       \* parser harness: what read_iaga2002 of test.py returned
    p_prod,      \* parser harness: the components ENT_Kindex.py resolves
    influx_bucket,  \* test.py: the points of measurement k_index in the bucket
    influx_bucket0, \* test.py: the bucket as it was when the cycle began
    wi              \* test.py: the pairs of zip(k_indices, k_times) written so far

vars == <<pc, files, fi, batch, all_data, components, variations, blocks,
          anchor, k_indices, k_times, outcome, slept, gauge, gauge0,
          q_pc, q_s, q_k9, q_k, q_k2, p_pc, p_file, p_out, p_prod, influx_bucket,
          influx_bucket0, wi>>

loopVars == <<pc, files, fi, batch, all_data, components, variations, blocks,
              anchor, k_indices, k_times, outcome, slept, gauge, gauge0>>

quantVars == <<q_pc, q_s, q_k9, q_k, q_k2>>

parseVars == <<p_pc, p_file, p_out, p_prod>>

influxVars == <<influx_bucket, influx_bucket0, wi>>

----------------------------------------------------------------------------
(* Program constants *)

k9_limit == 500
update_interval_minutes == 10
ErrorSleepSeconds == 60
BlockSeconds == 10800
HalfBlockSeconds == 5400
DaySeconds == 86400
Sentinel == 99999
KQuiet == 25
ThresholdDivisor == 500
niemegk_thresholds == <<0, 5, 10, 20, 40, 70, 120, 200, 330, 500>>

(* pandas NaN *)
NaN == 0 - 1000000

----------------------------------------------------------------------------
(* Bounds of the model *)

MaxRows == 9
MaxStat == 600
MaxDay == 2

----------------------------------------------------------------------------
(* Sequence helpers *)

\* the elements of a finite set of integers in ascending order
SortedSeq(S) ==
    [k \in 1..Cardinality(S) |->
        CHOOSE x \in S : Cardinality({y \in S : y <= x}) = k]

Min(a, b) == IF a <= b THEN a ELSE b

Max(a, b) == IF a >= b THEN a ELSE b

SetMin(S) == CHOOSE x \in S : \A y \in S : x <= y

SetMax(S) == CHOOSE x \in S : \A y \in S : x >= y

----------------------------------------------------------------------------
(* calculate_k_index: the quantizer, src/ENT_Kindex.py lines 135-138 *)

\* numpy's ordering of floats: NaN sorts after every number
NpLess500(v, thr500) == v # NaN /\ ThresholdDivisor * v < thr500

\* Variant: the base table left unscaled by the station's K9 limit
unscaled_thresholds500(i, k9) == niemegk_thresholds[i + 1] * ThresholdDivisor

\* thresholds[i] * 500, i counted from 0: base * k9 (the division by 500.0
\* is carried to the other side of every comparison)
scaled_thresholds500(i, k9) == niemegk_thresholds[i + 1] * k9

RECURSIVE BisectRight(_, _, _, _)
\* np.searchsorted(thresholds, v, side='right'): binary search for the first
\* index whose threshold is greater than v
BisectRight(v, k9, lo, hi) ==
    IF lo >= hi THEN lo
    ELSE LET mid == lo + ((hi - lo) \div 2)
         IN IF NpLess500(v, scaled_thresholds500(mid, k9))
            THEN BisectRight(v, k9, lo, mid)
            ELSE BisectRight(v, k9, mid + 1, hi)

RECURSIVE BisectLeft(_, _, _, _)
BisectLeft(v, k9, lo, hi) ==
    IF lo >= hi THEN lo
    ELSE LET mid == lo + ((hi - lo) \div 2)
         IN IF v = NaN \/ scaled_thresholds500(mid, k9) < ThresholdDivisor * v
            THEN BisectLeft(v, k9, mid + 1, hi)
            ELSE BisectLeft(v, k9, lo, mid)

\* Variant: np.searchsorted with side='left'
searchsorted_left(v, k9) == BisectLeft(v, k9, 0, Len(niemegk_thresholds))

searchsorted_right(v, k9) == BisectRight(v, k9, 0, Len(niemegk_thresholds))

clip(i, lo, hi) == Max(lo, Min(i, hi))

\* k_values for one variation, in hundredths
k_value(v, k9) ==
    LET i == clip(searchsorted_right(v, k9) - 1, 0, 9)
    IN IF i = 0 THEN KQuiet ELSE i * 100

----------------------------------------------------------------------------
(* calculate_k_index: the window aggregator, lines 122-134 *)

\* The table rows are [idx, t, X, Y, Z]: idx is the pandas index label the
\* row carries, t the epoch second of DATETIME.

HasLabel(tbl, l) == \E i \in DOMAIN tbl : tbl[i].idx = l

\* minute_time_float[0]: times_float is a pandas Series, so [0] looks up the
\* row LABELLED 0 (KeyError when the table holds no such row)
LabelledTime(tbl, l) == tbl[CHOOSE i \in DOMAIN tbl : tbl[i].idx = l].t

\* datetime(first.year, first.month, first.day) as epoch seconds
day_seconds_start_utc(t0) == (t0 \div DaySeconds) * DaySeconds

hour_block(t, start) == (t - start) \div BlockSeconds

\* np.unique(hour_blocks): the distinct blocks, ascending
unique_blocks(tbl, start) ==
    SortedSeq({hour_block(tbl[i].t, start) : i \in DOMAIN tbl})

\* positions selected by mask = hour_blocks == block_idx
BlockMask(tbl, start, b) ==
    {i \in DOMAIN tbl : hour_block(tbl[i].t, start) = b}

\* np.ptp over the masked values of one component: NaN if any value is NaN
ptp(tbl, mask, c) ==
    LET vals == {tbl[i][c] : i \in mask}
    IN IF NaN \in vals THEN NaN ELSE SetMax(vals) - SetMin(vals)

\* Variant: the smaller of the two ranges
PyMin(a, b) == IF a # NaN /\ b # NaN /\ b < a THEN b ELSE a

\* Python's max(a, b): b only if b > a, and every comparison with NaN is False
PyMax(a, b) == IF a # NaN /\ b # NaN /\ b > a THEN b ELSE a

variation(tbl, start, b, cx, cy) ==
    LET mask == BlockMask(tbl, start, b)
    IN IF Cardinality(mask) > 1
       THEN PyMax(ptp(tbl, mask, cx), ptp(tbl, mask, cy))
       ELSE 0

block_timestamp(start, b) == start + b * BlockSeconds + HalfBlockSeconds

\* max_variations: one statistic per block, in block order
max_variations(tbl, start, bs, cx, cy) ==
    [j \in DOMAIN bs |-> variation(tbl, start, bs[j], cx, cy)]

\* k_values: the quantizer applied to every statistic
k_values_of(vs, k9) == [j \in DOMAIN vs |-> k_value(vs[j], k9)]

\* timestamps: the middle of every block
timestamps_of(start, bs) == [j \in DOMAIN bs |-> block_timestamp(start, bs[j])]

\* The whole call.  raised: minute_time_float[0] raised KeyError.
calculate_k_index(tbl, cx, cy, k9) ==
    IF Len(tbl) = 0
    THEN [raised |-> FALSE, start |-> 0, blocks |-> <<>>, variations |-> <<>>,
          k_values |-> <<>>, timestamps |-> <<>>]
    ELSE IF ~HasLabel(tbl, 0)
    THEN [raised |-> TRUE, start |-> 0, blocks |-> <<>>, variations |-> <<>>,
          k_values |-> <<>>, timestamps |-> <<>>]
    ELSE LET start == day_seconds_start_utc(LabelledTime(tbl, 0))
             bs == unique_blocks(tbl, start)
             vs == max_variations(tbl, start, bs, cx, cy)
         IN [raised |-> FALSE, start |-> start, blocks |-> bs,
             variations |-> vs,
             k_values |-> k_values_of(vs, k9),
             timestamps |-> timestamps_of(start, bs)]

----------------------------------------------------------------------------
(* read_iaga2002, lines 69-105 *)

\* A raw file is [readable, header, rows]: readable is FALSE when opening or
\* reading it raises; header is the tokenised header line (<<>> when the file
\* has no line starting with DATE that holds TIME and DOY); a raw row is
\* [dt_ok, t, X, Y, Z] with dt_ok FALSE when DATE and TIME do not parse.

InHeader(header, c) == \E i \in DOMAIN header : header[i] = c

\* ['X','Y','Z'] if all of them are header fields, else None (<<>>)
reported_components(header) ==
    IF \A c \in {"X", "Y", "Z"} : InHeader(header, c)
    THEN <<"X", "Y", "Z">>
    ELSE <<>>

\* na_values=[99999.00, 99999.9]: the sentinel decodes to NaN
decode(tok) == IF tok = Sentinel THEN NaN ELSE tok

parse_row(r) == [t |-> r.t, X |-> decode(r.X), Y |-> decode(r.Y), Z |-> decode(r.Z)]

\* the data rows in file order, without those whose DATETIME is NaT
parse_rows(rows) ==
    LET kept == SelectSeq(rows, LAMBDA r : r.dt_ok)
    IN [i \in DOMAIN kept |-> parse_row(kept[i])]

\* (data, reported_components): (pd.DataFrame(), None) on every failure
read_iaga2002(f) ==
    IF ~f.readable THEN [data |-> <<>>, comps |-> <<>>]
    ELSE IF f.header = <<>> THEN [data |-> <<>>, comps |-> <<>>]
    ELSE IF reported_components(f.header) = <<>> THEN [data |-> <<>>, comps |-> <<>>]
    ELSE [data |-> parse_rows(f.rows), comps |-> reported_components(f.header)]

\* pd.concat([all_data, data], ignore_index=True): the rows of both, labelled
\* 0 .. n-1 anew
concat(tbl, data) ==
    LET n == Len(tbl)
    IN [i \in 1..(n + Len(data)) |->
          IF i <= n
          THEN [idx |-> i - 1, t |-> tbl[i].t, X |-> tbl[i].X, Y |-> tbl[i].Y, Z |-> tbl[i].Z]
          ELSE [idx |-> i - 1, t |-> data[i - n].t, X |-> data[i - n].X,
                Y |-> data[i - n].Y, Z |-> data[i - n].Z]]

----------------------------------------------------------------------------
(* float64 arithmetic of zscore, lines 107-115                              *)
(*                                                                         *)
(* preprocess_data compares a standard score with 2.5 in float64.  Away    *)
(* from 2.5 the rounding of the score cannot change the comparison for the *)
(* magnitudes supplied, and the integer form of zscore_ok decides it.  A   *)
(* score of exactly 2.5 is decided by the roundings of numpy's mean, its   *)
(* deviations, their squares, the sum of the squares, the division by the  *)
(* count, the square root and the final division.  A float64 is held as    *)
(* [sg, m, e], the number sg * m * 2^e, with m a natural number written in *)
(* digits of base Radix, least significant first (<<>> is 0).              *)

\* the one element of a singleton.  Only({e(t) : t \in {v}}) is e of the
\* value of v, computed once.
Only(S) == CHOOSE x \in S : TRUE

Radix == 32768

DigitBits == 15

MantissaBits == 53

RECURSIVE BNorm(_)
\* a without its leading zero digits
BNorm(a) ==
    IF Len(a) > 0 /\ a[Len(a)] = 0 THEN BNorm(SubSeq(a, 1, Len(a) - 1)) ELSE a

RECURSIVE BFromNat(_)
BFromNat(n) == IF n = 0 THEN <<>> ELSE <<n % Radix>> \o BFromNat(n \div Radix)

Digit(a, i) == IF i <= Len(a) THEN a[i] ELSE 0

RECURSIVE BAddC(_, _, _, _)
BAddC(a, b, i, c) ==
    IF i > Len(a) /\ i > Len(b) THEN (IF c = 0 THEN <<>> ELSE <<c>>)
    ELSE LET s == Digit(a, i) + Digit(b, i) + c
         IN <<s % Radix>> \o BAddC(a, b, i + 1, s \div Radix)

BAdd(a, b) == BAddC(a, b, 1, 0)

RECURSIVE BSubC(_, _, _, _)
BSubC(a, b, i, borrow) ==
    IF i > Len(a) THEN <<>>
    ELSE LET s == Digit(a, i) - Digit(b, i) - borrow
         IN <<IF s < 0 THEN s + Radix ELSE s>>
            \o BSubC(a, b, i + 1, IF s < 0 THEN 1 ELSE 0)

\* a - b for a >= b
BSub(a, b) == BNorm(BSubC(a, b, 1, 0))

BLess(a, b) ==
    IF Len(a) # Len(b) THEN Len(a) < Len(b)
    ELSE \E i \in DOMAIN a :
            a[i] < b[i] /\ \A j \in DOMAIN a : j > i => a[j] = b[j]

RECURSIVE BMulSmallC(_, _, _, _)
BMulSmallC(a, k, i, c) ==
    IF i > Len(a) THEN (IF c = 0 THEN <<>> ELSE <<c>>)
    ELSE LET p == a[i] * k + c
         IN <<p % Radix>> \o BMulSmallC(a, k, i + 1, p \div Radix)

\* a * k for a digit k
BMulSmall(a, k) == IF k = 0 THEN <<>> ELSE BMulSmallC(a, k, 1, 0)

RECURSIVE BMulFrom(_, _, _)
BMulFrom(a, b, j) ==
    IF j > Len(b) THEN <<>>
    ELSE BAdd(BMulSmall(a, b[j]), <<0>> \o BMulFrom(a, b, j + 1))

BMul(a, b) == IF a = <<>> \/ b = <<>> THEN <<>> ELSE BNorm(BMulFrom(a, b, 1))

RECURSIVE BDivC(_, _, _, _)
\* the digits i..1 of a divided by n, with r carried in from above
BDivC(a, n, i, r) ==
    IF i = 0 THEN [q |-> <<>>, r |-> r]
    ELSE LET cur == r * Radix + a[i]
             low == BDivC(a, n, i - 1, cur % n)
         IN [q |-> low.q \o <<cur \div n>>, r |-> low.r]

\* quotient and remainder of a by n, 0 < n <= Radix
BDivSmall(a, n) ==
    LET d == BDivC(a, n, Len(a), 0) IN [q |-> BNorm(d.q), r |-> d.r]

\* a * 2^k
BShl(a, k) ==
    IF a = <<>> THEN <<>>
    ELSE [i \in 1..(k \div DigitBits) |-> 0] \o BMulSmall(a, 2 ^ (k % DigitBits))

\* a \div 2^k, and whether a bit was shifted out
BShr(a, k) ==
    LET w == k \div DigitBits
    IN IF w >= Len(a) THEN [q |-> <<>>, sticky |-> a # <<>>]
       ELSE LET d == BDivSmall(SubSeq(a, w + 1, Len(a)), 2 ^ (k % DigitBits))
            IN [q |-> d.q,
                sticky |-> d.r # 0 \/ \E i \in 1..w : a[i] # 0]

BitLen(a) ==
    IF a = <<>> THEN 0
    ELSE DigitBits * (Len(a) - 1)
         + (CHOOSE n \in 1..DigitBits : 2 ^ (n - 1) <= a[Len(a)] /\ a[Len(a)] < 2 ^ n)

FZero == [sg |-> 1, m |-> <<>>, e |-> 0]

\* the float64 nearest to sg * m * 2^e, ties to even
Round53(sg, m, e) ==
    LET n == BitLen(m)
    IN IF n = 0 THEN FZero
       ELSE IF n <= MantissaBits THEN [sg |-> sg, m |-> m, e |-> e]
       ELSE LET k == n - MantissaBits
                s1 == BShr(m, k - 1)
                q == BShr(s1.q, 1).q
                up == s1.q[1] % 2 = 1 /\ (s1.sticky \/ q[1] % 2 = 1)
                r == IF up THEN BAdd(q, <<1>>) ELSE q
            IN IF BitLen(r) > MantissaBits
               THEN [sg |-> sg, m |-> BShr(r, 1).q, e |-> e + k + 1]
               ELSE [sg |-> sg, m |-> r, e |-> e + k]

FromInt(n) ==
    IF n = 0 THEN FZero
    ELSE Round53(IF n < 0 THEN 0 - 1 ELSE 1, BFromNat(IF n < 0 THEN 0 - n ELSE n), 0)

\* a + b, not rounded
FAddExact(a, b) ==
    IF a.m = <<>> THEN b
    ELSE IF b.m = <<>> THEN a
    ELSE LET e == IF a.e <= b.e THEN a.e ELSE b.e
             ma == BShl(a.m, a.e - e)
             mb == BShl(b.m, b.e - e)
         IN IF a.sg = b.sg THEN [sg |-> a.sg, m |-> BAdd(ma, mb), e |-> e]
            ELSE IF ma = mb THEN FZero
            ELSE IF BLess(mb, ma) THEN [sg |-> a.sg, m |-> BSub(ma, mb), e |-> e]
            ELSE [sg |-> b.sg, m |-> BSub(mb, ma), e |-> e]

FAdd(a, b) == Only({Round53(x.sg, x.m, x.e) : x \in {FAddExact(a, b)}})

FSub(a, b) == FAdd(a, [sg |-> 0 - b.sg, m |-> b.m, e |-> b.e])

FMul(a, b) == Round53(a.sg * b.sg, BMul(a.m, b.m), a.e + b.e)

\* a / n in float64 for a count n
FDivInt(a, n) ==
    IF a.m = <<>> THEN FZero
    ELSE LET k == IF BitLen(a.m) >= 70 THEN 0 ELSE 70 - BitLen(a.m)
             d == BDivSmall(BShl(a.m, k), n)
             m2 == BAdd(BShl(d.q, 1), IF d.r = 0 THEN <<>> ELSE <<1>>)
         IN Round53(a.sg, m2, a.e - k - 1)

RECURSIVE ISqrtFrom(_, _, _)
\* the integer square root of n, five bits at a step: r found so far, the
\* bits i .. i + 4 next
ISqrtFrom(n, r, i) ==
    IF i < 0 THEN r
    ELSE LET Cand(c) == BAdd(r, BShl(BFromNat(c), i))
             c == SetMax({b \in 0..31 : LET s == Cand(b) IN ~BLess(n, BMul(s, s))})
         IN ISqrtFrom(n, Cand(c), i - 5)

ISqrt(n) == ISqrtFrom(n, <<>>, 5 * (((BitLen(n) + 1) \div 2) \div 5))

\* np.sqrt(a) for a >= 0
FSqrt(a) ==
    IF a.m = <<>> THEN FZero
    ELSE LET k0 == IF BitLen(a.m) >= 110 THEN 0 ELSE 110 - BitLen(a.m)
             k == IF (a.e - k0) % 2 = 0 THEN k0 ELSE k0 + 1
         IN Only({Round53(1, BAdd(BShl(r, 1), IF BMul(r, r) = n THEN <<>> ELSE <<1>>),
                          ((a.e - k) \div 2) - 1) :
                     <<n, r>> \in {<<BShl(a.m, k), ISqrt(BShl(a.m, k))>>}})

\* |a / b| <= 2.5 in float64, b > 0: the quotient rounds to at most 2.5 iff
\* it is at most 2.5 + 2^-52, the midpoint of 2.5 and the next float64
FQuotientLe25(a, b) ==
    LET c == BAdd(BShl(<<5>>, 51), <<1>>)
        ea == a.e + 52
        e == IF ea <= b.e THEN ea ELSE b.e
    IN ~BLess(BShl(BMul(b.m, c), b.e - e), BShl(a.m, ea - e))

\* The orders in which a build may add up an array: one after the other; as
\* numpy's pairwise summation does; or without rounding until the end.
SumOrders == {"sequential", "pairwise", "exact"}

PairwiseBlock == 128

PairwiseUnroll == 8

RECURSIVE SumSequential(_, _, _, _)
\* ((res + x[lo]) + ...) + x[hi], rounded after every addition; the range is
\* walked by halves, from left to right
SumSequential(x, lo, hi, res) ==
    IF lo > hi THEN res
    ELSE IF lo = hi THEN FAdd(res, x[lo])
    ELSE LET mid == (lo + hi) \div 2
         IN Only({SumSequential(x, mid + 1, hi, left) :
                     left \in {SumSequential(x, lo, mid, res)}})

RECURSIVE SumStride(_, _, _, _)
\* x[lo] + x[lo + 8] + ... below hi: one of the eight accumulators
SumStride(x, lo, hi, res) ==
    IF lo > hi THEN res
    ELSE Only({SumStride(x, lo + PairwiseUnroll, hi, s) : s \in {FAdd(res, x[lo])}})

RECURSIVE SumTree(_, _, _)
\* the accumulators r[lo..hi] added by halves: for 0..7,
\* ((r0 + r1) + (r2 + r3)) + ((r4 + r5) + (r6 + r7))
SumTree(r, lo, hi) ==
    IF lo = hi THEN r[lo]
    ELSE LET mid == (lo + hi) \div 2
         IN FAdd(SumTree(r, lo, mid), SumTree(r, mid + 1, hi))

RECURSIVE SumPairwise(_, _, _)
\* numpy's pairwise sum of x[lo..hi]
SumPairwise(x, lo, hi) ==
    LET n == hi - lo + 1
    IN IF n < PairwiseUnroll THEN SumSequential(x, lo, hi, FZero)
       ELSE IF n <= PairwiseBlock
       THEN LET full == n - (n % PairwiseUnroll)
                r == [j \in 0..(PairwiseUnroll - 1) |->
                         SumStride(x, lo + j + PairwiseUnroll, lo + full - 1, x[lo + j])]
            IN Only({SumSequential(x, lo + full, hi, res) :
                        res \in {SumTree(r, 0, PairwiseUnroll - 1)}})
       ELSE LET h == n \div 2
                n2 == h - (h % PairwiseUnroll)
            IN FAdd(SumPairwise(x, lo, lo + n2 - 1), SumPairwise(x, lo + n2, hi))

RECURSIVE SumExact(_, _, _)
\* x[lo] + ... + x[hi], not rounded
SumExact(x, lo, hi) ==
    IF lo > hi THEN FZero
    ELSE IF lo = hi THEN x[lo]
    ELSE LET mid == (lo + hi) \div 2
         IN FAddExact(SumExact(x, lo, mid), SumExact(x, mid + 1, hi))

\* np.add.reduce(x) under the given order
np_sum(x, order) ==
    IF order = "sequential" THEN SumSequential(x, 1, Len(x), FZero)
    ELSE IF order = "pairwise" THEN SumPairwise(x, 1, Len(x))
    ELSE Only({Round53(s.sg, s.m, s.e) : s \in {SumExact(x, 1, Len(x))}})

RECURSIVE IntSum(_, _, _)
\* the sum of the present values of col[lo..hi]
IntSum(col, lo, hi) ==
    IF lo > hi THEN 0
    ELSE IF lo = hi THEN (IF col[lo] = NaN THEN 0 ELSE col[lo])
    ELSE LET mid == (lo + hi) \div 2
         IN IntSum(col, lo, mid) + IntSum(col, mid + 1, hi)

\* abs(zscore(col, nan_policy='omit'))[.] <= 2.5 for the value v of the
\* column col, whose deviation is positive, as float64 computes it: the mean
\* of integers is their exact sum divided by the count; the deviations of
\* the missing values count as 0.
float_zscore_ok(col, v, order) ==
    \E m \in {Cardinality({i \in DOMAIN col : col[i] # NaN})} :
    \E total \in {FromInt(IntSum(col, 1, Len(col)))} :
    \E mean \in {FDivInt(total, m)} :
    \E dev \in {[i \in DOMAIN col |->
                    IF col[i] = NaN THEN FZero ELSE FSub(FromInt(col[i]), mean)]} :
    \E sq \in {[i \in DOMAIN col |-> FMul(dev[i], dev[i])]} :
    \E sum \in {np_sum(sq, order)} :
    \E var \in {FDivInt(sum, m)} :
    \E std \in {FSqrt(var)} :
    \E x \in {FromInt(v)} :
    \E d \in {FSub(x, mean)} :
        FQuotientLe25(d, std)

----------------------------------------------------------------------------
(* preprocess_data, lines 107-115 *)

\* the positions of tbl whose component c is present (not NaN)
Present(tbl, c) == {i \in DOMAIN tbl : tbl[i][c] # NaN}

\* Standard scores do not change when every value is shifted by the same
\* amount: the sums are taken over values shifted by the first present one,
\* which keeps them small.
Ref(tbl, c) == tbl[SetMin(Present(tbl, c))][c]

RECURSIVE SumDev(_, _, _, _, _)
\* the sum of the shifted present values of rows lo..hi, by halves
SumDev(tbl, c, ref, lo, hi) ==
    IF lo > hi THEN 0
    ELSE IF lo = hi THEN (IF tbl[lo][c] = NaN THEN 0 ELSE tbl[lo][c] - ref)
    ELSE LET mid == (lo + hi) \div 2
         IN SumDev(tbl, c, ref, lo, mid) + SumDev(tbl, c, ref, mid + 1, hi)

RECURSIVE SumSq(_, _, _, _, _)
\* the sum of their squares
SumSq(tbl, c, ref, lo, hi) ==
    IF lo > hi THEN 0
    ELSE IF lo = hi
         THEN (IF tbl[lo][c] = NaN THEN 0 ELSE (tbl[lo][c] - ref) * (tbl[lo][c] - ref))
    ELSE LET mid == (lo + hi) \div 2
         IN SumSq(tbl, c, ref, lo, mid) + SumSq(tbl, c, ref, mid + 1, hi)

\* One column and the sums over it: m present values, shifted by ref, with
\* sum S and varnum = m*Q - S*S, which is m*m times their population variance.
column_stats(tbl, c) ==
    LET m == Cardinality(Present(tbl, c))
        ref == IF m = 0 THEN 0 ELSE Ref(tbl, c)
        S == SumDev(tbl, c, ref, 1, Len(tbl))
    IN [m |-> m, ref |-> ref, S |-> S,
        varnum |-> m * SumSq(tbl, c, ref, 1, Len(tbl)) - S * S,
        col |-> [i \in DOMAIN tbl |-> tbl[i][c]]]

\* x.std(skipna=True) > 0: the sample deviation is NaN below two present
\* values and 0 when they are all equal
std_positive(st) == st.m >= 2 /\ st.varnum > 0

\* |zscore(x, nan_policy='omit')| <= 2.5 for the value v; a NaN score compares
\* False.  z*z = (m*v - S)^2 / (m*Q - S^2), so the exact score is below 5/2
\* iff 4*(m*v - S)^2 < 25*(m*Q - S^2), and the float64 score is on the same
\* side.  An exact score of 5/2 is computed in float64, under the order in
\* which the installed numpy adds up the squares.
zscore_ok(st, v, order) ==
    LET d == st.m * (v - st.ref) - st.S
    IN /\ v # NaN
       /\ IF 4 * d * d = 25 * st.varnum
          THEN float_zscore_ok(st.col, v, order)
          ELSE 4 * d * d < 25 * st.varnum

\* Variant: a row passes as soon as one column's score is within 2.5
valid_mask_any(row, comps, sts, order) ==
    \E k \in DOMAIN comps :
        IF std_positive(sts[k]) THEN zscore_ok(sts[k], row[comps[k]], order) ELSE TRUE

\* one entry of valid_mask: every selected column's score is within 2.5; a
\* column whose deviation is not positive scores np.zeros_like(x)
valid_mask(row, comps, sts, order) ==
    \A k \in DOMAIN comps :
        IF std_positive(sts[k]) THEN zscore_ok(sts[k], row[comps[k]], order) ELSE TRUE

\* Variant: the rows kept come out newest first
keep_valid_reversed(tbl, comps, sts, order) ==
    LET kept == SelectSeq(tbl, LAMBDA row : valid_mask(row, comps, sts, order))
    IN [i \in DOMAIN kept |-> kept[Len(kept) + 1 - i]]

\* data[valid_mask]: the rows kept, in order, each with its label
keep_valid(tbl, comps, sts, order) ==
    SelectSeq(tbl, LAMBDA row : valid_mask(row, comps, sts, order))

RECURSIVE all_stats(_, _, _)
\* the sums of every selected column, computed once per call
all_stats(tbl, comps, k) ==
    IF k > Len(comps) THEN <<>>
    ELSE <<column_stats(tbl, comps[k])>> \o all_stats(tbl, comps, k + 1)

\* data[valid_mask] raises IndexingError.  numeric_data.apply collects one
\* result per column and builds the score table from them; when the first
\* result is an ndarray and the table has as many rows as columns, it labels
\* the rows with the column names, and the mask taken from it cannot be
\* aligned with the rows of data.  The result of a column whose deviation is
\* not positive is np.zeros_like(x), an ndarray; that of another column is
\* what the installed zscore returns, an ndarray or not (ndarray).
index_error(tbl, comps, sts, ndarray) ==
    Len(tbl) = Len(comps) /\ (~std_positive(sts[1]) \/ ndarray)

\* [raised, data]: the call raises, or returns the table data
preprocess_data(tbl, comps, ndarray, order) ==
    IF Len(tbl) = 0 THEN [raised |-> FALSE, data |-> tbl]
    ELSE LET sts == all_stats(tbl, comps, 1)
         IN IF index_error(tbl, comps, sts, ndarray)
            THEN [raised |-> TRUE, data |-> <<>>]
            ELSE [raised |-> FALSE, data |-> keep_valid(tbl, comps, sts, order)]

----------------------------------------------------------------------------
(* The files a cycle may be supplied with *)

XYZHeader == <<"DATE", "TIME", "DOY", "X", "Y", "Z", "F">>

HDZHeader == <<"DATE", "TIME", "DOY", "H", "D", "Z", "F">>

Day(d) == d * DaySeconds

\* The token of one column at row i of n.  A shape is [kind, lo, hi, pos]:
\* flat (lo everywhere), ramp (lo rising to hi), spike (lo, and hi at row
\* pos), half (lo in the first half, hi in the second), gap (a ramp with the
\* sentinel at row pos), flatgap (lo with the sentinel at row pos), head (a
\* ramp whose second half is the sentinel), tail (whose first half is).
Tok(sh, i, n) ==
    LET ramp == IF n = 1 THEN sh.lo ELSE sh.lo + ((i - 1) * (sh.hi - sh.lo)) \div (n - 1)
    IN CASE sh.kind = "flat" -> sh.lo
         [] sh.kind = "ramp" -> ramp
         [] sh.kind = "spike" -> IF i = sh.pos THEN sh.hi ELSE sh.lo
         [] sh.kind = "half" -> IF 2 * i <= n THEN sh.lo ELSE sh.hi
         [] sh.kind = "gap" -> IF i = sh.pos THEN Sentinel ELSE ramp
         [] sh.kind = "flatgap" -> IF i = sh.pos THEN Sentinel ELSE sh.lo
         [] sh.kind = "head" -> IF 2 * i <= n THEN ramp ELSE Sentinel
         [] sh.kind = "tail" -> IF 2 * i <= n THEN Sentinel ELSE ramp

Shape(kind, lo, hi, pos) == [kind |-> kind, lo |-> lo, hi |-> hi, pos |-> pos]

\* a readable XYZ file of n rows, row i at start + (i-1)*stride; row bad (if
\* any) has a DATE/TIME that does not parse
GenFile(n, start, stride, bad, sx, sy, sz) ==
    [readable |-> TRUE, header |-> XYZHeader,
     rows |-> [i \in 1..n |->
                 [dt_ok |-> i # bad, t |-> start + (i - 1) * stride,
                  X |-> Tok(sx, i, n), Y |-> Tok(sy, i, n), Z |-> Tok(sz, i, n)]]]

RowCounts == {1, 2, 3, MaxRows - 1, MaxRows}

\* [start, stride]: one block; three rows an hour apart per block; backwards
\* in time across midnight; across a block boundary at 03:00
Layouts ==
    {<<Day(MaxDay), 60>>, <<Day(MaxDay), 3600>>,
     <<Day(MaxDay) + 7200, 0 - 3600>>, <<Day(MaxDay) + BlockSeconds - 60, 60>>}

XShapes ==
    {Shape("flat", 100, 100, 0), Shape("ramp", 100, 140, 0),
     Shape("spike", 100, 140, 1), Shape("spike", 100, 700, 3),
     Shape("gap", 100, 140, 2), Shape("flatgap", 100, 100, 2)}

YShapes ==
    {Shape("flat", 100, 100, 0), Shape("ramp", 100, 110, 0),
     Shape("spike", 100, 230, 3)}

ZShapes ==
    {Shape("flat", 50, 50, 0), Shape("spike", 50, 900, 3),
     Shape("spike", 50, 900, 1)}

SingleFiles ==
    {GenFile(n, l[1], l[2], 0, sx, sy, sz) :
        n \in RowCounts, l \in Layouts, sx \in XShapes, sy \in YShapes, sz \in ZShapes}

\* files that yield no samples: unreadable, no header line, no X,Y,Z in the
\* header, a header with no data row below it
BadFiles ==
    {[readable |-> FALSE, header |-> XYZHeader, rows |-> <<>>],
     [readable |-> TRUE, header |-> <<>>, rows |-> <<>>],
     [readable |-> TRUE, header |-> HDZHeader,
      rows |-> GenFile(2, Day(MaxDay), 60, 0, Shape("flat", 100, 100, 0),
                       Shape("flat", 100, 100, 0), Shape("flat", 50, 50, 0)).rows],
     [readable |-> TRUE, header |-> XYZHeader, rows |-> <<>>]}

\* short daily files, as list_ftp_files orders them or not
SmallFiles ==
    {GenFile(n, Day(d), 3600, bad, sx, Shape("flat", 100, 100, 0), Shape("flat", 50, 50, 0)) :
        n \in {1, 4}, d \in (MaxDay - 1)..MaxDay, bad \in {0},
        sx \in {Shape("ramp", 100, 140, 0), Shape("spike", 100, 140, 1)}}
    \cup {GenFile(3, Day(MaxDay - 1) + 7200, 3600, 1, Shape("ramp", 100, 120, 0),
                  Shape("flat", 100, 100, 0), Shape("flat", 50, 50, 0))}
    \cup {GenFile(4, Day(MaxDay), 3600, 0, Shape("head", 100, 140, 0),
                  Shape("tail", 100, 110, 0), Shape("flat", 50, 50, 0))}

\* 180 one-minute rows in one 3-hour window, X from 100 to 140, Y from 100 to 110
E2ELen == BlockSeconds \div 60

E2EFiles ==
    {GenFile(E2ELen, Day(MaxDay) + b * BlockSeconds, 60, 0, sx, sy, sz) :
        b \in {0, 5},
        sx \in {Shape("ramp", 100, 140, 0), Shape("half", 100, 140, 0),
                Shape("spike", 100, 140, 1), Shape("spike", 100, 140, 90)},
        sy \in {Shape("ramp", 100, 110, 0), Shape("half", 100, 110, 0),
                Shape("spike", 100, 110, 90)},
        sz \in {Shape("flat", 50, 50, 0), Shape("spike", 50, 90, 7)}}

PairFiles == BadFiles \cup SmallFiles

TripleFiles ==
    BadFiles \cup {GenFile(4, Day(MaxDay), 3600, 0, Shape("ramp", 100, 140, 0),
                           Shape("flat", 100, 100, 0), Shape("flat", 50, 50, 0))}

\* what get_ftp_files may return: at most len_days files
Supply ==
    {<<>>}
    \cup {<<f>> : f \in SingleFiles \cup BadFiles \cup SmallFiles \cup E2EFiles}
    \cup {<<f, g>> : f \in PairFiles, g \in PairFiles}
    \cup {<<f, g, h>> : f \in TripleFiles, g \in TripleFiles, h \in TripleFiles}

----------------------------------------------------------------------------
(* main_loop, lines 146-178 *)

NoQuantizer == q_pc = "idle" /\ q_s = 0 /\ q_k9 = 0 /\ q_k = 0 /\ q_k2 = 0

NoParser == p_pc = "idle" /\ p_file = <<>> /\ p_out = <<>> /\ p_prod = <<>>

NoInflux == influx_bucket = {} /\ influx_bucket0 = {} /\ wi = 0

Init ==
    /\ pc = "fetch"
    /\ files = <<>>
    /\ fi = 0
    /\ batch = <<>>
    /\ all_data = <<>>
    /\ components = <<>>
    /\ variations = <<>>
    /\ blocks = <<>>
    /\ anchor = 0
    /\ k_indices = <<>>
    /\ k_times = <<>>
    /\ outcome = "start"
    /\ slept = 0
    /\ gauge = 0
    /\ gauge0 = 0
    /\ NoQuantizer
    /\ NoParser
    /\ NoInflux

\* files = get_ftp_files(); if not files: sleep and continue
Fetch ==
    /\ pc = "fetch"
    /\ \E fs \in Supply :
          /\ files' = fs
          /\ IF fs = <<>>
             THEN pc' = "sleep" /\ outcome' = "no_files" /\ fi' = 0
             ELSE pc' = "read" /\ outcome' = "running" /\ fi' = 1
    /\ all_data' = <<>>
    /\ components' = <<>>
    /\ slept' = 0
    /\ gauge0' = gauge
    /\ UNCHANGED <<batch, variations, blocks, anchor, k_indices, k_times, gauge>>
    /\ UNCHANGED <<quantVars, parseVars, influxVars>>

\* Variant: a file that yields no samples ends the cycle in the except clause
ReadFileRaises ==
    /\ pc = "read"
    /\ fi <= Len(files)
    /\ \E r \in {read_iaga2002(files[fi])} :
          IF Len(r.data) > 0
          THEN /\ all_data' = concat(all_data, r.data)
               /\ components' = IF components = <<>> THEN r.comps ELSE components
               /\ pc' = pc
          ELSE /\ pc' = "except"
               /\ UNCHANGED <<all_data, components>>
    /\ fi' = fi + 1
    /\ UNCHANGED <<files, batch, variations, blocks, anchor, k_indices, k_times,
                   outcome, slept, gauge, gauge0>>
    /\ UNCHANGED <<quantVars, parseVars, influxVars>>

\* one iteration of: for file_path in files
ReadFile ==
    /\ pc = "read"
    /\ fi <= Len(files)
    /\ \E r \in {read_iaga2002(files[fi])} :
          IF Len(r.data) > 0
          THEN /\ all_data' = concat(all_data, r.data)
               /\ components' = IF components = <<>> THEN r.comps ELSE components
          ELSE UNCHANGED <<all_data, components>>
    /\ fi' = fi + 1
    /\ UNCHANGED <<pc, files, batch, variations, blocks, anchor, k_indices, k_times,
                   outcome, slept, gauge, gauge0>>
    /\ UNCHANGED <<quantVars, parseVars, influxVars>>

\* after the loop: if all_data.empty: sleep and continue
CheckData ==
    /\ pc = "read"
    /\ fi > Len(files)
    /\ IF Len(all_data) = 0
       THEN pc' = "sleep" /\ outcome' = "no_data"
       ELSE pc' = "preprocess" /\ UNCHANGED outcome
    /\ UNCHANGED <<files, fi, batch, all_data, components, variations, blocks, anchor,
                   k_indices, k_times, slept, gauge, gauge0>>
    /\ UNCHANGED <<quantVars, parseVars, influxVars>>

\* all_data = preprocess_data(all_data, components); an IndexingError goes
\* to the except clause, all_data still the merged table
Preprocess ==
    /\ pc = "preprocess"
    /\ batch' = all_data
    /\ \E ndarray \in BOOLEAN, order \in SumOrders :
          \E r \in {preprocess_data(all_data, components, ndarray, order)} :
             IF r.raised
             THEN pc' = "except" /\ outcome' = "filter_raised" /\ all_data' = all_data
             ELSE pc' = "calculate" /\ outcome' = outcome /\ all_data' = r.data
    /\ UNCHANGED <<files, fi, components, variations, blocks, anchor, k_indices, k_times,
                   slept, gauge, gauge0>>
    /\ UNCHANGED <<quantVars, parseVars, influxVars>>

\* times_float, comp_x, comp_y, then calculate_k_index(...); a KeyError goes
\* to the except clause
Calculate ==
    /\ pc = "calculate"
    /\ IF Len(all_data) = 0
       THEN /\ pc' = "expose"
            /\ anchor' = 0
            /\ blocks' = <<>>
            /\ variations' = <<>>
            /\ k_indices' = <<>>
            /\ k_times' = <<>>
       ELSE IF ~HasLabel(all_data, 0)
       THEN /\ pc' = "except"
            /\ UNCHANGED <<variations, blocks, anchor, k_indices, k_times>>
       ELSE /\ pc' = "expose"
            /\ anchor' = day_seconds_start_utc(LabelledTime(all_data, 0))
            /\ blocks' = unique_blocks(all_data, anchor')
            /\ variations' = max_variations(all_data, anchor', blocks',
                                            components[1], components[2])
            /\ k_indices' = k_values_of(variations', k9_limit)
            /\ k_times' = timestamps_of(anchor', blocks')
    /\ UNCHANGED <<files, fi, batch, all_data, components, outcome, slept, gauge, gauge0>>
    /\ UNCHANGED <<quantVars, parseVars, influxVars>>

\* Variant: the gauge takes the first window's K-index
expose_first(k_values, g) ==
    IF Len(k_values) > 0 THEN k_values[1] ELSE g

\* expose_k_index(k_indices, station_name)
expose_k_index(k_values, g) ==
    IF Len(k_values) > 0 THEN k_values[Len(k_values)] ELSE g

Expose ==
    /\ pc = "expose"
    /\ gauge' = expose_k_index(k_indices, gauge)
    /\ pc' = "sleep"
    /\ outcome' = "exposed"
    /\ UNCHANGED <<files, fi, batch, all_data, components, variations, blocks, anchor,
                   k_indices, k_times, slept, gauge0>>
    /\ UNCHANGED <<quantVars, parseVars, influxVars>>

\* time.sleep(update_interval_minutes * 60), then the next iteration
Sleep ==
    /\ pc = "sleep"
    /\ slept' = update_interval_minutes * 60
    /\ pc' = "fetch"
    /\ files' = <<>>
    /\ fi' = 0
    /\ batch' = <<>>
    /\ all_data' = <<>>
    /\ components' = <<>>
    /\ variations' = <<>>
    /\ blocks' = <<>>
    /\ anchor' = 0
    /\ k_indices' = <<>>
    /\ k_times' = <<>>
    /\ UNCHANGED <<outcome, gauge, gauge0>>
    /\ UNCHANGED <<quantVars, parseVars, influxVars>>

\* except Exception: log, time.sleep(60), then the next iteration
HandleError ==
    /\ pc = "except"
    /\ slept' = ErrorSleepSeconds
    /\ outcome' = "error"
    /\ pc' = "fetch"
    /\ files' = <<>>
    /\ fi' = 0
    /\ batch' = <<>>
    /\ all_data' = <<>>
    /\ components' = <<>>
    /\ variations' = <<>>
    /\ blocks' = <<>>
    /\ anchor' = 0
    /\ k_indices' = <<>>
    /\ k_times' = <<>>
    /\ UNCHANGED <<gauge, gauge0>>
    /\ UNCHANGED <<quantVars, parseVars, influxVars>>

Next ==
    \/ Fetch
    \/ ReadFile
    \/ CheckData
    \/ Preprocess
    \/ Calculate
    \/ Expose
    \/ Sleep
    \/ HandleError

Spec == Init /\ [][Next]_vars

FairSpec == Init /\ [][Next]_vars /\ WF_vars(Next)

----------------------------------------------------------------------------
(* The quantizer of calculate_k_index applied to single statistics *)

K9Limits == {1, 3, 250, 499, 500, 1000}

LoopIdle ==
    /\ pc = "idle"
    /\ files = <<>>
    /\ fi = 0
    /\ batch = <<>>
    /\ all_data = <<>>
    /\ components = <<>>
    /\ variations = <<>>
    /\ blocks = <<>>
    /\ anchor = 0
    /\ k_indices = <<>>
    /\ k_times = <<>>
    /\ outcome = "start"
    /\ slept = 0
    /\ gauge = 0
    /\ gauge0 = 0

InitQuantizer ==
    /\ LoopIdle
    /\ q_pc = "call"
    /\ q_s \in 0..MaxStat
    /\ q_k9 \in K9Limits
    /\ q_k = 0
    /\ q_k2 = 0
    /\ NoParser
    /\ NoInflux

\* the K-index of statistic q_s under limit q_k9
QuantizeCall ==
    /\ q_pc = "call"
    /\ q_k' = k_value(q_s, q_k9)
    /\ q_pc' = "scaled"
    /\ UNCHANGED <<q_s, q_k9, q_k2>>
    /\ UNCHANGED <<loopVars, parseVars, influxVars>>

\* the K-index of the doubled statistic under the doubled limit
QuantizeScaled ==
    /\ q_pc = "scaled"
    /\ q_k2' = k_value(2 * q_s, 2 * q_k9)
    /\ q_pc' = "done"
    /\ UNCHANGED <<q_s, q_k9, q_k>>
    /\ UNCHANGED <<loopVars, parseVars, influxVars>>

NextQuantizer ==
    \/ QuantizeCall
    \/ QuantizeScaled

SpecQuantizer == InitQuantizer /\ [][NextQuantizer]_vars

----------------------------------------------------------------------------
(* Properties of the quantizer, checked under SpecQuantizer *)

\* the greatest index i in 0..9 with base[i] * k9 / 500 <= s
GreatestIndex(s, k9) ==
    SetMax({i \in 0..9 : niemegk_thresholds[i + 1] * k9 <= 500 * s})

Reported(i) == IF i = 0 THEN 25 ELSE 100 * i

\* C1: for every statistic s >= 0 and positive limit k9 the K-index returned is
\* the greatest index i in 0..9 with base[i]*k9/500 <= s, index 0 reported as
\* 0.25; with k9 = 500, s = 120 gives 6, s = 4 gives 0.25 and s = 501 gives 9.
C1_GreatestThreshold ==
    q_pc # "call" =>
        /\ q_k = Reported(GreatestIndex(q_s, q_k9))
        /\ (q_k9 = 500 /\ q_s = 120) => q_k = 600
        /\ (q_k9 = 500 /\ q_s = 4) => q_k = 25
        /\ (q_k9 = 500 /\ q_s = 501) => q_k = 900

C1_Witness ==
    q_pc = "done" /\ q_k9 = 500 /\ q_s = 120 /\ q_k = 600

\* C10: the K-index of statistic 2*s under K9 limit 1000 equals the K-index
\* of statistic s under K9 limit 500.
C10_ScaleInvariant ==
    (q_pc = "done" /\ q_k9 = 500) => q_k2 = q_k

C10_Witness ==
    q_pc = "done" /\ q_k9 = 500 /\ q_s = 35 /\ q_k = 300 /\ q_k2 = 300

----------------------------------------------------------------------------
(* Standard scores, stated on the plain sums of a column *)

Labels == <<"X", "Y", "Z">>

RECURSIVE ColSum(_, _, _, _)
ColSum(tbl, c, lo, hi) ==
    IF lo > hi THEN 0
    ELSE IF lo = hi THEN (IF tbl[lo][c] = NaN THEN 0 ELSE tbl[lo][c])
    ELSE ColSum(tbl, c, lo, (lo + hi) \div 2) + ColSum(tbl, c, ((lo + hi) \div 2) + 1, hi)

RECURSIVE ColSumSq(_, _, _, _)
ColSumSq(tbl, c, lo, hi) ==
    IF lo > hi THEN 0
    ELSE IF lo = hi THEN (IF tbl[lo][c] = NaN THEN 0 ELSE tbl[lo][c] * tbl[lo][c])
    ELSE ColSumSq(tbl, c, lo, (lo + hi) \div 2) + ColSumSq(tbl, c, ((lo + hi) \div 2) + 1, hi)

\* <<m, S, m*Q - S*S>> of the present values of column c: their number, their
\* sum, and m*m times their variance
ColMoments(tbl, c) ==
    LET m == Cardinality({i \in DOMAIN tbl : tbl[i][c] # NaN})
        S == ColSum(tbl, c, 1, Len(tbl))
    IN <<m, S, m * ColSumSq(tbl, c, 1, Len(tbl)) - S * S>>

Moments(tbl) == <<ColMoments(tbl, "X"), ColMoments(tbl, "Y"), ColMoments(tbl, "Z")>>

\* column k has a standard score at all: its variance is not zero
HasVariance(mom, k) == mom[k][3] > 0

\* value v of column k has a standard score, and it exceeds 2.5 in absolute
\* value: (v - S/m)^2 > 6.25 * variance
ScoreExceeds(mom, k, v) ==
    /\ HasVariance(mom, k)
    /\ v # NaN
    /\ 4 * (mom[k][1] * v - mom[k][2]) * (mom[k][1] * v - mom[k][2]) > 25 * mom[k][3]

\* value v of column k passes the gate: its score is within 2.5, a column
\* without variance scoring zero; a missing value of a column with variance
\* has no score and does not pass
ScorePasses(mom, k, v) ==
    HasVariance(mom, k) => (v # NaN /\ ~ScoreExceeds(mom, k, v))

\* sample i of the batch is in the table the call returned
Retained(i) == \E j \in DOMAIN all_data : all_data[j].idx = batch[i].idx

----------------------------------------------------------------------------
(* Properties of the quality filter, checked under Spec *)

\* C5: when at least one selected component of the batch has nonzero variance,
\* no sample of the filter's output has a selected component whose standard
\* score over the batch exceeds 2.5 in absolute value.
C5_NoOutlierKept ==
    pc = "calculate" =>
        LET mom == Moments(batch)
        IN (\E k \in DOMAIN components : HasVariance(mom, k)) =>
              \A j \in DOMAIN all_data : \A k \in DOMAIN components :
                  ~ScoreExceeds(mom, k, all_data[j][components[k]])

C5_Witness ==
    /\ pc = "calculate"
    /\ Len(all_data) > 0
    /\ Len(all_data) < Len(batch)
    /\ \E i \in DOMAIN batch :
          ~Retained(i) /\ ScoreExceeds(Moments(batch), 2, batch[i].Y)

\* C6: the filter selects the first two components only: a sample of the
\* batch is retained exactly when the scores of both are within 2.5, whatever
\* the third component holds (stated for the calls that return a table).
C6_TwoComponents ==
    pc = "calculate" =>
        LET mom == Moments(batch)
        IN \A i \in DOMAIN batch :
              Retained(i) <=> (ScorePasses(mom, 1, batch[i].X) /\ ScorePasses(mom, 2, batch[i].Y))

\* What holds of the code when the call returns: a sample is retained exactly
\* when the scores of X, Y and Z are all within 2.5.
C6_ThreeComponents ==
    pc = "calculate" =>
        LET mom == Moments(batch)
        IN \A i \in DOMAIN batch :
              Retained(i) <=> (/\ ScorePasses(mom, 1, batch[i].X)
                               /\ ScorePasses(mom, 2, batch[i].Y)
                               /\ ScorePasses(mom, 3, batch[i].Z))

\* What holds of the code when the call raises: the batch has as many samples
\* as components; and a batch of that size whose first component has no
\* variance is never filtered.
C6_SquareBatchRaises ==
    /\ (pc = "except" /\ outcome = "filter_raised") => Len(batch) = 3
    /\ (pc = "calculate" /\ Len(batch) = 3) => HasVariance(Moments(batch), 1)

\* No score of the supplied batches sits exactly on the 2.5 gate, where the
\* floating-point quotient of the source could fall on either side.
ScoresOffTheGate ==
    pc = "calculate" =>
        LET mom == Moments(batch)
        IN \A i \in DOMAIN batch : \A k \in 1..3 :
              (HasVariance(mom, k) /\ batch[i][Labels[k]] # NaN) =>
                  4 * (mom[k][1] * batch[i][Labels[k]] - mom[k][2])
                    * (mom[k][1] * batch[i][Labels[k]] - mom[k][2]) # 25 * mom[k][3]

----------------------------------------------------------------------------
(* Properties of the window aggregator, checked under Spec.  While pc is     *)
(* "expose" calculate_k_index has returned: all_data holds the samples it    *)
(* received, and anchor, blocks, variations, k_indices and k_times what it   *)
(* computed.  While pc is "except" the call raised, unless the filter did.   *)

\* calculate_k_index was called, and returned or raised
Called == pc = "expose" \/ (pc = "except" /\ outcome # "filter_raised")

\* the samples of all_data whose block index, counted from start, is b
SamplesOfBlock(start, b) ==
    {i \in DOMAIN all_data : (all_data[i].t - start) \div 10800 = b}

\* max - min of the present values of component c over the samples S
PresentRange(S, c) ==
    LET vals == {all_data[i][c] : i \in S} \ {NaN}
    IN IF vals = {} THEN 0 ELSE SetMax(vals) - SetMin(vals)

BlockStatistic(j) ==
    LET S == SamplesOfBlock(anchor, blocks[j])
    IN /\ Cardinality(S) > 1 =>
             variations[j] = Max(PresentRange(S, "X"), PresentRange(S, "Y"))
       /\ Cardinality(S) = 1 => (variations[j] = 0 /\ k_indices[j] = 25)

NoMissing(S) == \A i \in S : all_data[i].X # NaN /\ all_data[i].Y # NaN

\* C2: for every block index present, a block of more than one sample has as
\* statistic the greater of max - min of the first and of the second
\* component over its samples; a block of one sample has statistic 0 and
\* K-index 0.25.
C2_BlockStatistic ==
    pc = "expose" => \A j \in DOMAIN blocks : BlockStatistic(j)

\* What holds of the code: the same, for the blocks none of whose samples
\* lacks a value in either component.
C2_CompleteBlocks ==
    pc = "expose" =>
        \A j \in DOMAIN blocks :
            NoMissing(SamplesOfBlock(anchor, blocks[j])) => BlockStatistic(j)

\* the earliest timestamp of a table
Earliest(tbl) == SetMin({tbl[i].t : i \in DOMAIN tbl})

MidnightOf(t) == t - (t % 86400)

\* every file supplied holds its rows in ascending time order
EachFileChronological ==
    \A k \in DOMAIN files :
        \A i \in DOMAIN files[k].rows :
            i > 1 => files[k].rows[i - 1].t < files[k].rows[i].t

\* C3: whatever order the files are supplied in, the anchor day_start is
\* midnight UTC of the day of the chronologically earliest sample of the
\* cycle's merged sample set (stated for the cycles whose files are each in
\* time order and whose filter rejected nothing, where the merged set and the
\* set handed to calculate_k_index are the same).
C3_AnchorIsEarliestDay ==
    (pc = "expose" /\ EachFileChronological /\ all_data = batch /\ Len(batch) > 0) =>
        anchor = MidnightOf(Earliest(batch))

\* What holds of the code: the anchor is midnight of the day of the first row
\* of the merged table, the row labelled 0.
C3_AnchorIsFirstRowDay ==
    pc = "expose" /\ Len(all_data) > 0 => anchor = MidnightOf(batch[1].t)

DistinctBlocks == {all_data[i].t \div 10800 : i \in DOMAIN all_data}

\* C9: calculate_k_index returns exactly one (K-index, timestamp) pair per
\* distinct block index among the samples it receives, in strictly ascending
\* block order, the pair of block b stamped day_start + b*10800 + 5400; zero
\* samples give zero pairs.
C9_OnePairPerBlock ==
    Called =>
        /\ Len(k_indices) = Cardinality(DistinctBlocks)
        /\ Len(k_times) = Len(k_indices)
        /\ \A j \in DOMAIN k_times :
              /\ k_times[j] = anchor + blocks[j] * 10800 + 5400
              /\ SamplesOfBlock(anchor, blocks[j]) # {}
              /\ j > 1 => blocks[j - 1] < blocks[j]

\* What holds of the code: the same whenever the call returns.
C9_WhenReturned ==
    pc = "expose" =>
        /\ Len(k_indices) = Cardinality(DistinctBlocks)
        /\ Len(k_times) = Len(k_indices)
        /\ \A j \in DOMAIN k_times :
              /\ k_times[j] = anchor + blocks[j] * 10800 + 5400
              /\ SamplesOfBlock(anchor, blocks[j]) # {}
              /\ j > 1 => blocks[j - 1] < blocks[j]

----------------------------------------------------------------------------
(* The end-to-end scenario, checked under Spec *)

ColumnOf(rows, c) == {rows[i][c] : i \in DOMAIN rows}

\* the cycle was supplied one parsable file of 180 one-minute rows lying in
\* one 3-hour window, X ranging from 100 to 140 and Y from 100 to 110
E2EInput ==
    /\ Len(files) = 1
    /\ files[1].readable
    /\ files[1].header = XYZHeader
    /\ LET rows == files[1].rows
       IN /\ Len(rows) = 180
          /\ \A i \in DOMAIN rows : rows[i].dt_ok /\ rows[i].t = rows[1].t + 60 * (i - 1)
          /\ rows[1].t \div 10800 = rows[180].t \div 10800
          /\ SetMin(ColumnOf(rows, "X")) = 100 /\ SetMax(ColumnOf(rows, "X")) = 140
          /\ SetMin(ColumnOf(rows, "Y")) = 100 /\ SetMax(ColumnOf(rows, "Y")) = 110

\* the cycle has ended, normally or in the except clause, and its results
\* are what the variables hold
CycleEnded == pc \in {"sleep", "except"}

\* C4 as stated: every such file yields exactly one window, of statistic 40
\* and K-index 4 (stated for the cycles that run to their normal end).
C4_EveryFile ==
    (E2EInput /\ pc = "sleep") => (variations = <<40>> /\ k_indices = <<400>>)

\* no sample of the merged batch is rejected by the quality filter: every
\* score of X, Y and Z is within 2.5
NothingRejected ==
    LET mom == Moments(batch)
    IN \A i \in DOMAIN batch : \A k \in 1..3 : ScorePasses(mom, k, batch[i][Labels[k]])

\* C4, amended: every such file none of whose samples the quality filter
\* rejects yields exactly one window, of statistic 40 and K-index 4.
C4_UnfilteredFile ==
    (E2EInput /\ CycleEnded /\ NothingRejected) =>
        (variations = <<40>> /\ k_indices = <<400>>)

C4_Witness ==
    /\ E2EInput
    /\ pc = "sleep"
    /\ outcome = "exposed"
    /\ NothingRejected
    /\ Len(all_data) = 180
    /\ variations = <<40>>
    /\ k_indices = <<400>>
    /\ gauge = 400

----------------------------------------------------------------------------
(* Properties of the polling loop *)

\* read_iaga2002 cannot parse the file: reading raises, there is no header
\* line, or the header does not name X, Y and Z
Unparsable(f) ==
    \/ ~f.readable
    \/ f.header = <<>>
    \/ ~({"X", "Y", "Z"} \subseteq {f.header[i] : i \in DOMAIN f.header})

Missing(tok) == IF tok = 99999 THEN NaN ELSE tok

\* the samples a file contributes: none if it cannot be parsed, else its
\* timestamped rows in file order
SamplesOf(f) ==
    IF Unparsable(f) THEN <<>>
    ELSE LET kept == SelectSeq(f.rows, LAMBDA r : r.dt_ok)
         IN [i \in DOMAIN kept |->
               [t |-> kept[i].t, X |-> Missing(kept[i].X), Y |-> Missing(kept[i].Y),
                Z |-> Missing(kept[i].Z)]]

RECURSIVE MergedSamples(_)
\* the samples of the first n files of the cycle, in the order supplied
MergedSamples(n) ==
    IF n = 0 THEN <<>> ELSE MergedSamples(n - 1) \o SamplesOf(files[n])

Unlabelled(tbl) ==
    [i \in DOMAIN tbl |-> [t |-> tbl[i].t, X |-> tbl[i].X, Y |-> tbl[i].Y, Z |-> tbl[i].Z]]

\* C7: a file that cannot be parsed contributes no samples and does not stop
\* the cycle, whose other files are still merged and processed; when every
\* file fails the cycle sleeps with an empty result, nothing exposed, and
\* never enters the except clause.
C7_BadFilesSkipped ==
    /\ pc = "read" => Unlabelled(all_data) = MergedSamples(fi - 1)
    /\ pc = "preprocess" => Unlabelled(all_data) = MergedSamples(Len(files))
    /\ pc \in {"calculate", "expose", "except"} =>
          Unlabelled(batch) = MergedSamples(Len(files))
    /\ (files # <<>> /\ \A i \in DOMAIN files : Unparsable(files[i])) =>
          /\ pc = "read" \/ (pc = "sleep" /\ outcome = "no_data")
          /\ k_indices = <<>>
          /\ gauge = gauge0

C7_Witness ==
    /\ pc = "calculate"
    /\ Len(files) = 3
    /\ Unparsable(files[1])
    /\ ~Unparsable(files[2])
    /\ Unparsable(files[3])
    /\ Len(batch) = 4

\* the ways a cycle ends in its sleep, and the seconds slept after each
SleepOutcomes == {"no_files", "no_data", "exposed"}

\* what holds at every position of the loop: the loop is at one of its
\* positions; a cycle in the except clause, or ended by it, has produced no
\* result and left the gauge as the cycle found it; the fetch that follows a
\* cycle comes after that cycle's sleep
LoopSafe ==
    /\ pc \in {"fetch", "read", "preprocess", "calculate", "expose", "sleep", "except"}
    /\ pc = "sleep" => outcome \in SleepOutcomes
    /\ (pc = "except" \/ (pc = "fetch" /\ outcome = "error")) =>
          (gauge = gauge0 /\ k_indices = <<>> /\ k_times = <<>>)
    /\ (pc = "fetch" /\ outcome = "error") => slept = ErrorSleepSeconds
    /\ (pc = "fetch" /\ outcome \in SleepOutcomes) => slept = update_interval_minutes * 60

\* What holds of the loop of ENT_Kindex.py: it never ends on a failure and
\* never stalls: however a cycle ends (no files, no data, results exposed, an
\* exception at a step of the cycle) the loop sleeps and then starts a new
\* fetch, and every cycle that starts ends; a cycle that failed leaves no
\* result and the gauge as it was.
C8_LoopGoesOn ==
    /\ []LoopSafe
    /\ CycleEnded ~> (pc = "fetch" /\ slept > 0)
    /\ (~CycleEnded) ~> CycleEnded

C8_Witness ==
    pc = "fetch" /\ outcome = "error" /\ slept = 60 /\ gauge # 0

----------------------------------------------------------------------------
(* Properties of the quality filter as a map of batches, checked under Spec. *)
(* From pc = "calculate" on, batch is the table handed to preprocess_data    *)
(* and all_data the table it returned, unless the call raised.               *)

Filtered == pc \in {"calculate", "expose", "except"} /\ outcome # "filter_raised"

\* the input position of output sample j: the input table is labelled
\* 0 .. n-1 in order, and a sample keeps its label
InputPosition(j) == all_data[j].idx + 1

SameSample(a, b) == a.t = b.t /\ a.X = b.X /\ a.Y = b.Y /\ a.Z = b.Z

\* C11: the output of preprocess_data is a subsequence of its input: every
\* output sample is an input sample with the same timestamp and values, the
\* input positions of the output samples strictly increase (no sample twice,
\* order preserved), and the empty batch is returned as it is.
C11_OutputIsSubsequence ==
    /\ Filtered =>
          /\ Len(all_data) <= Len(batch)
          /\ \A j \in DOMAIN all_data :
                /\ InputPosition(j) \in DOMAIN batch
                /\ SameSample(all_data[j], batch[InputPosition(j)])
                /\ j > 1 => InputPosition(j - 1) < InputPosition(j)
    /\ \A ndarray \in BOOLEAN, order \in SumOrders :
          preprocess_data(<<>>, <<"X", "Y", "Z">>, ndarray, order) = [raised |-> FALSE, data |-> <<>>]

\* a row from the middle of the batch was dropped, rows before and after kept
C11_Witness ==
    /\ Filtered
    /\ Len(batch) >= 8
    /\ Len(all_data) = Len(batch) - 1
    /\ all_data[1].idx = 0
    /\ all_data[Len(all_data)].idx = Len(batch) - 1

----------------------------------------------------------------------------
(* read_iaga2002 of src/test.py, lines 85-185: the parser with the three    *)
(* ways of resolving the component triplet.                                 *)
(*                                                                          *)
(* A raw file is [readable, meta, header, rows].  meta holds the lines      *)
(* before the header, each [kind, rest]: kind is the text the line starts   *)
(* with ("Reported", "Station Name", or another) and rest its further       *)
(* whitespace-separated tokens, a token being a sequence of characters.     *)
(* header is the header line split into fields, '|' removed (a lone '|'     *)
(* leaves the empty field).  A row is [dt_ok, t, vals], vals being the      *)
(* tokens of the data line aligned with the header fields.                  *)

generic_xyz == <<"X", "Y", "Z">>

generic_hdz == <<"H", "D", "Z">>

\* station_code.upper() + label, station_code = "ent"
possible_xyz == <<"ENTX", "ENTY", "ENTZ">>

possible_hdz == <<"ENTH", "ENTD", "ENTZ">>

\* all(c in header_fields for c in labels)
all_in(labels, fields) == \A i \in DOMAIN labels : InHeader(fields, labels[i])

\* the letters of the files, which are read as text: A..Z and a..z in
\* alphabetical order
UpperCase ==
    <<"A", "B", "C", "D", "E", "F", "G", "H", "I", "J", "K", "L", "M",
      "N", "O", "P", "Q", "R", "S", "T", "U", "V", "W", "X", "Y", "Z">>

LowerCase ==
    <<"a", "b", "c", "d", "e", "f", "g", "h", "i", "j", "k", "l", "m",
      "n", "o", "p", "q", "r", "s", "t", "u", "v", "w", "x", "y", "z">>

\* str.isalpha on one character: true of every letter, false of digits,
\* '|' and punctuation
isalpha(ch) ==
    \E i \in DOMAIN UpperCase : ch = UpperCase[i] \/ ch = LowerCase[i]

\* str.upper on one character: a lower-case letter becomes its capital,
\* every other character stays
upper(ch) ==
    IF \E i \in DOMAIN LowerCase : ch = LowerCase[i]
    THEN UpperCase[CHOOSE i \in DOMAIN LowerCase : ch = LowerCase[i]]
    ELSE ch

\* line.split()[-1]: the last token of the line, the keyword itself when
\* nothing follows it
last_token(line) ==
    IF line.rest = <<>> THEN <<"R", "e", "p", "o", "r", "t", "e", "d">>
    ELSE line.rest[Len(line.rest)]

\* ''.join(filter(str.isalpha, line.split()[-1])).upper()
reported_str(line) ==
    LET letters == SelectSeq(last_token(line), isalpha)
    IN [i \in DOMAIN letters |-> upper(letters[i])]

RECURSIVE scan_metadata(_, _, _)
\* for line in lines[:header_end]: every "Reported" line whose code is known
\* sets reported_components, a later one overriding an earlier one
scan_metadata(meta, k, found) ==
    IF k > Len(meta) THEN found
    ELSE IF meta[k].kind # "Reported" THEN scan_metadata(meta, k + 1, found)
    ELSE IF reported_str(meta[k]) \in {<<"X", "Y", "Z", "F">>, <<"X", "Y", "Z">>}
         THEN scan_metadata(meta, k + 1, generic_xyz)
    ELSE IF reported_str(meta[k]) \in {<<"H", "D", "Z", "F">>, <<"H", "D", "Z">>}
         THEN scan_metadata(meta, k + 1, generic_hdz)
    ELSE scan_metadata(meta, k + 1, found)

\* reported_components as lines 110-131 leave it, <<>> for None
resolve_components(f) ==
    IF all_in(generic_xyz, f.header) THEN generic_xyz
    ELSE IF all_in(generic_hdz, f.header) THEN generic_hdz
    ELSE IF all_in(possible_xyz, f.header) THEN generic_xyz
    ELSE IF all_in(possible_hdz, f.header) THEN generic_hdz
    ELSE scan_metadata(f.meta, 1, <<>>)

rename_one(c, from, to) ==
    IF \E i \in DOMAIN from : from[i] = c
    THEN to[CHOOSE i \in DOMAIN from : from[i] = c]
    ELSE c

\* data.rename(columns=rename_dict): the column names after lines 148-162
rename_columns(fields) ==
    IF InHeader(fields, "ENTX")
    THEN [i \in DOMAIN fields |-> rename_one(fields[i], possible_xyz, generic_xyz)]
    ELSE IF InHeader(fields, "ENTH")
    THEN [i \in DOMAIN fields |-> rename_one(fields[i], possible_hdz, generic_hdz)]
    ELSE fields

\* the positions of the columns named c
columns_named(cols, c) == {i \in DOMAIN cols : cols[i] = c}

\* the value of column c in one data line; a line shorter than the header
\* leaves the column empty
column_value(cols, c, vals) ==
    LET i == CHOOSE j \in columns_named(cols, c) : TRUE
    IN IF i <= Len(vals) THEN decode(vals[i]) ELSE NaN

\* data[["DATETIME"] + reported_components] without the rows whose DATETIME
\* is NaT
select_columns(cols, comps, rows) ==
    LET kept == SelectSeq(rows, LAMBDA r : r.dt_ok)
    IN [i \in DOMAIN kept |->
          [t |-> kept[i].t,
           vals |-> [k \in DOMAIN comps |-> column_value(cols, comps[k], kept[i].vals)]]]

parse_failure(why) == [status |-> why, comps |-> <<>>, data |-> <<>>]

\* (data, reported_components) and how the call ended.  Lines 174-179 go
\* through the triplet in order: a component that is no column ends the call
\* with "component missing"; one that names two columns makes pd.to_numeric
\* raise, which the outer except turns into the empty result.
read_iaga2002_test(f) ==
    IF ~f.readable THEN parse_failure("exception")
    ELSE IF f.header = <<>> THEN parse_failure("no_header")
    ELSE LET comps == resolve_components(f)
             cols == rename_columns(f.header)
             bad == {k \in DOMAIN comps : Cardinality(columns_named(cols, comps[k])) # 1}
         IN IF comps = <<>> THEN parse_failure("no_components")
            ELSE IF bad = {} THEN [status |-> "ok", comps |-> comps,
                                   data |-> select_columns(cols, comps, f.rows)]
            ELSE IF columns_named(cols, comps[SetMin(bad)]) = {}
                 THEN parse_failure("component_missing")
            ELSE parse_failure("exception")

----------------------------------------------------------------------------
(* The parsers applied to single files *)

ReportedLine(rest) == [kind |-> "Reported", rest |-> rest]

\* the metadata blocks supplied: no declaration; the code alone; the code
\* followed by the closing '|' of an IAGA-2002 header line; lower case with
\* the '|' attached; the horizontal codes; unknown codes, one of them with a
\* letter inside the known code and a digit after it; the keyword with
\* nothing after it; two declarations; a declaration after the station name
MetaBlocks ==
    {<<>>,
     <<ReportedLine(<<<<"X", "Y", "Z", "F">>>>)>>,
     <<ReportedLine(<<<<"X", "Y", "Z", "F">>, <<"|">>>>)>>,
     <<ReportedLine(<<<<"x", "y", "z", "f", "|">>>>)>>,
     <<ReportedLine(<<<<"H", "D", "Z", "F">>>>)>>,
     <<ReportedLine(<<<<"H", "D", "Z">>, <<"|">>>>)>>,
     <<ReportedLine(<<<<"X", "Y", "Z", "G">>>>)>>,
     <<ReportedLine(<<<<"X", "Y", "Z", "E">>>>)>>,
     <<ReportedLine(<<<<"x", "Y", "a", "Z", "1">>>>)>>,
     <<ReportedLine(<<>>)>>,
     <<ReportedLine(<<<<"X", "Y", "Z">>>>), ReportedLine(<<<<"H", "D", "Z">>>>)>>,
     <<[kind |-> "Station Name", rest |-> <<<<"E">>>>], ReportedLine(<<<<"X", "Y", "Z">>>>)>>}

\* the header lines supplied: generic, station-prefixed, unnamed columns
\* (with and without the field a lone '|' leaves), a header naming X twice
\* once renamed, a partly prefixed one, and no header line at all
HeaderLines ==
    {XYZHeader, HDZHeader,
     <<"DATE", "TIME", "DOY", "ENTX", "ENTY", "ENTZ", "ENTF">>,
     <<"DATE", "TIME", "DOY", "ENTH", "ENTD", "ENTZ", "ENTF", "">>,
     <<"DATE", "TIME", "DOY", "C1", "C2", "C3", "C4">>,
     <<"DATE", "TIME", "DOY", "C1", "C2", "C3", "C4", "">>,
     <<"DATE", "TIME", "DOY", "X", "Y", "Z", "ENTX">>,
     <<"DATE", "TIME", "DOY", "ENTX", "ENTY", "Z", "F">>,
     <<>>}

\* the data lines supplied: none; three lines, one with the sentinel and one
\* whose DATE and TIME do not parse
RowBlocks ==
    {<<>>,
     <<[dt_ok |-> TRUE, t |-> Day(MaxDay), vals |-> <<0, 0, 1, 100, 200, 300, 400>>],
       [dt_ok |-> FALSE, t |-> 0, vals |-> <<0, 0, 1, 101, 201, 301, 401>>],
       [dt_ok |-> TRUE, t |-> Day(MaxDay) + 60, vals |-> <<0, 0, 1, 102, Sentinel, 302, 402>>]>>}

RawFiles ==
    {[readable |-> TRUE, meta |-> m, header |-> h, rows |-> r] :
        m \in MetaBlocks, h \in HeaderLines, r \in RowBlocks}
    \cup {[readable |-> FALSE, meta |-> <<>>, header |-> XYZHeader, rows |-> <<>>]}

InitParser ==
    /\ LoopIdle
    /\ NoQuantizer
    /\ p_pc = "call"
    /\ p_file \in RawFiles
    /\ p_out = <<>>
    /\ p_prod = <<>>
    /\ NoInflux

\* read_iaga2002(file_path) of test.py
ParseCall ==
    /\ p_pc = "call"
    /\ p_out' = read_iaga2002_test(p_file)
    /\ p_pc' = "read"
    /\ UNCHANGED <<p_file, p_prod>>
    /\ UNCHANGED <<loopVars, quantVars, influxVars>>

\* the triplet read_iaga2002 of ENT_Kindex.py returns for the same file: None
\* (<<>>) when opening the file raises or it has no header line, else what
\* the header line resolves
ParseProduction ==
    /\ p_pc = "read"
    /\ p_prod' = IF ~p_file.readable \/ p_file.header = <<>> THEN <<>>
                 ELSE reported_components(p_file.header)
    /\ p_pc' = "done"
    /\ UNCHANGED <<p_file, p_out>>
    /\ UNCHANGED <<loopVars, quantVars, influxVars>>

NextParser ==
    \/ ParseCall
    \/ ParseProduction

SpecParser == InitParser /\ [][NextParser]_vars

----------------------------------------------------------------------------
(* Properties of the parser, checked under SpecParser *)

\* the code a "Reported" line declares: the letters of the token that follows
\* the keyword, in upper case
DeclaredCode(line) ==
    IF line.rest = <<>> THEN <<>>
    ELSE LET letters == SelectSeq(line.rest[1], isalpha)
         IN [i \in DOMAIN letters |-> upper(letters[i])]

Names(fields) == {fields[i] : i \in DOMAIN fields}

\* step (a): generic labels in the header
StepA(f) ==
    IF {"X", "Y", "Z"} \subseteq Names(f.header) THEN <<"X", "Y", "Z">>
    ELSE IF {"H", "D", "Z"} \subseteq Names(f.header) THEN <<"H", "D", "Z">>
    ELSE <<>>

\* step (b): station-prefixed labels in the header
StepB(f) ==
    IF {"ENTX", "ENTY", "ENTZ"} \subseteq Names(f.header) THEN <<"X", "Y", "Z">>
    ELSE IF {"ENTH", "ENTD", "ENTZ"} \subseteq Names(f.header) THEN <<"H", "D", "Z">>
    ELSE <<>>

\* step (c): a "Reported" line whose code is XYZF/XYZ or HDZF/HDZ
StepC(f) ==
    IF \E k \in DOMAIN f.meta :
          /\ f.meta[k].kind = "Reported"
          /\ DeclaredCode(f.meta[k]) \in {<<"X", "Y", "Z", "F">>, <<"X", "Y", "Z">>}
    THEN <<"X", "Y", "Z">>
    ELSE IF \E k \in DOMAIN f.meta :
          /\ f.meta[k].kind = "Reported"
          /\ DeclaredCode(f.meta[k]) \in {<<"H", "D", "Z", "F">>, <<"H", "D", "Z">>}
    THEN <<"H", "D", "Z">>
    ELSE <<>>

\* the triplet the three steps resolve, tried in order; <<>> if none does
ResolvedTriplet(f) ==
    IF StepA(f) # <<>> THEN StepA(f)
    ELSE IF StepB(f) # <<>> THEN StepB(f)
    ELSE StepC(f)

\* the file has a header line that does not name a component both by its
\* generic and by its prefixed label, holds one declaration at most, and
\* reading it raises nothing
PlainFile(f) ==
    /\ f.readable
    /\ f.header # <<>>
    /\ Len(f.meta) <= 1
    /\ ~(InHeader(f.header, "X") /\ InHeader(f.header, "ENTX"))

\* C12: read_iaga2002 resolves the triplet by (a) generic labels, (b)
\* station-prefixed labels, (c) a "Reported" line, in this order; a file whose
\* triplet one of the steps resolves yields a parsed table with that triplet,
\* one sample per timestamped data line; the parser fails with "no valid
\* components" only if no step resolves a triplet.
C12_ResolvedYieldsTable ==
    (p_pc \in {"read", "done"} /\ PlainFile(p_file)) =>
        /\ ResolvedTriplet(p_file) # <<>> =>
              /\ p_out.status = "ok"
              /\ p_out.comps = ResolvedTriplet(p_file)
              /\ Len(p_out.data) = Len(SelectSeq(p_file.rows, LAMBDA r : r.dt_ok))
        /\ p_out.status = "no_components" => ResolvedTriplet(p_file) = <<>>

\* What holds of test.py: the same for the files whose triplet step (a) or
\* (b) resolves, and "no valid components" only if no step resolves one.
C12_HeaderSteps ==
    (p_pc \in {"read", "done"} /\ PlainFile(p_file)) =>
        /\ (StepA(p_file) # <<>> \/ StepB(p_file) # <<>>) =>
              /\ p_out.status = "ok"
              /\ p_out.comps = ResolvedTriplet(p_file)
              /\ Len(p_out.data) = Len(SelectSeq(p_file.rows, LAMBDA r : r.dt_ok))
        /\ p_out.status = "no_components" =>
              (StepA(p_file) = <<>> /\ StepB(p_file) = <<>>)

\* What holds of ENT_Kindex.py: it resolves the generic labels X, Y, Z and
\* nothing else.
C12_ProductionGenericOnly ==
    p_pc = "done" =>
        p_prod = (IF p_file.readable /\ {"X", "Y", "Z"} \subseteq Names(p_file.header)
                  THEN <<"X", "Y", "Z">> ELSE <<>>)

----------------------------------------------------------------------------
(* main_loop of src/test.py, lines 304-356.  The merged table has the      *)
(* columns of every table concatenated; its rows are [idx, t, X, Y, Z, H,   *)
(* D], a column the row's file did not have being NaN, as pd.concat fills   *)
(* it.  preprocess_data and calculate_k_index of test.py (lines 187-197 and *)
(* 206-234) compute what those of ENT_Kindex.py compute, and the operators  *)
(* above stand for both.                                                    *)

\* the value a parsed row holds under label c, NaN if its table has no such
\* column
labelled_value(comps, vals, c) ==
    IF \E k \in DOMAIN comps : comps[k] = c
    THEN vals[CHOOSE k \in DOMAIN comps : comps[k] = c]
    ELSE NaN

\* pd.concat([all_data, data], ignore_index=True) for the tables of test.py
concat_test(tbl, out) ==
    LET n == Len(tbl)
    IN [i \in 1..(n + Len(out.data)) |->
          IF i <= n
          THEN [tbl[i] EXCEPT !.idx = i - 1]
          ELSE LET r == out.data[i - n]
               IN [idx |-> i - 1, t |-> r.t,
                   X |-> labelled_value(out.comps, r.vals, "X"),
                   Y |-> labelled_value(out.comps, r.vals, "Y"),
                   Z |-> labelled_value(out.comps, r.vals, "Z"),
                   H |-> labelled_value(out.comps, r.vals, "H"),
                   D |-> labelled_value(out.comps, r.vals, "D")]]

\* all_data.sort_values("DATETIME"): the rows in ascending time order, each
\* with its label; rows of the same time keep their order (tables of at most
\* 16 rows are sorted by insertion)
sort_values(tbl) ==
    [k \in 1..Len(tbl) |->
        tbl[CHOOSE i \in DOMAIN tbl :
               Cardinality({j \in DOMAIN tbl :
                               \/ tbl[j].t < tbl[i].t
                               \/ (tbl[j].t = tbl[i].t /\ j < i)}) = k - 1]]

\* write_api.write(bucket, org, record=point) for the pair (k, t): the point
\* of the measurement replaces the point of the same time
write_point(bucket, k, t) ==
    {pt \in bucket : pt.time # t} \cup {[time |-> t, value |-> k]}

\* the data lines of the files of a cycle: three lines, one with the
\* sentinel and one whose DATE and TIME do not parse; one line and one that
\* does not parse; three lines
\* with a constant first component; three lines whose first holds a spike
CycleRows ==
    {<<[dt_ok |-> TRUE, t |-> Day(MaxDay), vals |-> <<0, 0, 1, 100, 200, 300, 400>>],
       [dt_ok |-> FALSE, t |-> 0, vals |-> <<0, 0, 1, 101, 201, 301, 401>>],
       [dt_ok |-> TRUE, t |-> Day(MaxDay) + 60, vals |-> <<0, 0, 1, 102, Sentinel, 302, 402>>]>>,
     <<[dt_ok |-> TRUE, t |-> Day(MaxDay), vals |-> <<0, 0, 1, 100, 200, 300, 400>>],
       [dt_ok |-> FALSE, t |-> 0, vals |-> <<0, 0, 1, 101, 201, 301, 401>>]>>,
     <<[dt_ok |-> TRUE, t |-> Day(MaxDay), vals |-> <<0, 0, 1, 100, 200, 300, 400>>],
       [dt_ok |-> TRUE, t |-> Day(MaxDay) + 60, vals |-> <<0, 0, 1, 100, 205, 300, 400>>],
       [dt_ok |-> TRUE, t |-> Day(MaxDay) + 120, vals |-> <<0, 0, 1, 100, 210, 300, 400>>]>>,
     <<[dt_ok |-> TRUE, t |-> Day(MaxDay), vals |-> <<0, 0, 1, 700, 200, 300, 400>>],
       [dt_ok |-> TRUE, t |-> Day(MaxDay) + 60, vals |-> <<0, 0, 1, 100, 200, 300, 400>>],
       [dt_ok |-> TRUE, t |-> Day(MaxDay) + 120, vals |-> <<0, 0, 1, 100, 200, 300, 400>>]>>}

CycleFile(h, r) == [readable |-> TRUE, meta |-> <<>>, header |-> h, rows |-> r]

\* the files of a cycle: generic X,Y,Z with each kind of data lines, generic
\* and prefixed H,D,Z, and a file whose triplet is not resolved
CycleFiles ==
    {CycleFile(XYZHeader, r) : r \in CycleRows}
    \cup {CycleFile(HDZHeader, CHOOSE r \in CycleRows : Len(r) = 3 /\ ~r[2].dt_ok),
          CycleFile(<<"DATE", "TIME", "DOY", "ENTH", "ENTD", "ENTZ", "ENTF", "">>,
                    CHOOSE r \in CycleRows : Len(r) = 2),
          CycleFile(<<"DATE", "TIME", "DOY", "C1", "C2", "C3", "C4">>,
                    CHOOSE r \in CycleRows : Len(r) = 2)}

\* the generic X,Y,Z file whose first component holds a spike
SpikeFile == CycleFile(XYZHeader, CHOOSE r \in CycleRows : r[1].vals[4] = 700)

\* the file with the same lines, dated `back` days earlier
DaysBack(f, back) ==
    [f EXCEPT !.rows = [i \in DOMAIN f.rows |->
                           [f.rows[i] EXCEPT !.t = IF f.rows[i].dt_ok
                                                   THEN f.rows[i].t - back * DaySeconds
                                                   ELSE 0]]]

\* what get_ftp_files of test.py may return: the latest daily files, at most
\* len_days of them, newest first (list_ftp_files, lines 56-57): no file,
\* one, two, or the spike file of two days and any file of the day before.
\* With the three-line file of Y = 200, 205, 210 as the oldest, the second
\* component of the batch is 200 seven times, 205 and 210, and the exact
\* score of 210 is 2.5.
TestSupply ==
    {<<>>}
    \cup {<<f>> : f \in CycleFiles}
    \cup {<<f, DaysBack(g, 1)>> : f \in CycleFiles, g \in CycleFiles}
    \cup {<<SpikeFile, DaysBack(SpikeFile, 1), DaysBack(h, 2)>> : h \in CycleFiles}

\* the loop is entered, plt.ion() (line 305) having returned
InitTestLoop ==
    /\ pc = "fetch"
    /\ files = <<>>
    /\ fi = 0
    /\ batch = <<>>
    /\ all_data = <<>>
    /\ components = <<>>
    /\ variations = <<>>
    /\ blocks = <<>>
    /\ anchor = 0
    /\ k_indices = <<>>
    /\ k_times = <<>>
    /\ outcome = "start"
    /\ slept = 0
    /\ gauge = 0
    /\ gauge0 = 0
    /\ NoQuantizer
    /\ NoParser
    /\ NoInflux

\* files = get_ftp_files(); if not files: sleep and continue (lines 308-313).
TestFetch ==
    /\ pc = "fetch"
    /\ \E fs \in TestSupply :
          /\ files' = fs
          /\ IF fs = <<>>
             THEN pc' = "sleep" /\ outcome' = "no_files" /\ fi' = 0
             ELSE pc' = "read" /\ outcome' = "running" /\ fi' = 1
    /\ all_data' = <<>>
    /\ components' = <<>>
    /\ UNCHANGED <<batch, variations, blocks, anchor, k_indices, k_times,
                   slept, gauge, gauge0>>
    /\ influx_bucket0' = influx_bucket
    /\ wi' = 0
    /\ UNCHANGED <<quantVars, parseVars, influx_bucket>>

\* Variant: the labels follow the latest file that yielded a table
TestReadFileLastWins ==
    /\ pc = "read"
    /\ fi <= Len(files)
    /\ \E r \in {read_iaga2002_test(files[fi])} :
          IF Len(r.data) > 0
          THEN /\ all_data' = concat_test(all_data, r)
               /\ components' = r.comps
          ELSE UNCHANGED <<all_data, components>>
    /\ fi' = fi + 1
    /\ UNCHANGED <<pc, files, batch, variations, blocks, anchor, k_indices, k_times,
                   outcome, slept, gauge, gauge0>>
    /\ UNCHANGED <<quantVars, parseVars, influxVars>>

\* one iteration of: for file_path in files (lines 319-325)
TestReadFile ==
    /\ pc = "read"
    /\ fi <= Len(files)
    /\ \E r \in {read_iaga2002_test(files[fi])} :
          IF Len(r.data) > 0
          THEN /\ all_data' = concat_test(all_data, r)
               /\ components' = IF components = <<>> THEN r.comps ELSE components
          ELSE UNCHANGED <<all_data, components>>
    /\ fi' = fi + 1
    /\ UNCHANGED <<pc, files, batch, variations, blocks, anchor, k_indices, k_times,
                   outcome, slept, gauge, gauge0>>
    /\ UNCHANGED <<quantVars, parseVars, influxVars>>

\* after the loop (lines 327-330): an empty table ends the cycle in its
\* sleep
TestCheckData ==
    /\ pc = "read"
    /\ fi > Len(files)
    /\ IF Len(all_data) = 0
       THEN pc' = "sleep" /\ outcome' = "no_data"
       ELSE pc' = "preprocess" /\ outcome' = outcome
    /\ UNCHANGED <<files, fi, batch, all_data, components, variations, blocks, anchor,
                   k_indices, k_times, slept, gauge, gauge0>>
    /\ UNCHANGED <<quantVars, parseVars, influxVars>>

\* all_data = preprocess_data(all_data, components), then
\* all_data.sort_values("DATETIME", inplace=True) (lines 332-333); an
\* IndexingError goes to the except clause
TestPreprocess ==
    /\ pc = "preprocess"
    /\ batch' = all_data
    /\ \E ndarray \in BOOLEAN, order \in SumOrders :
          \E r \in {preprocess_data(all_data, components, ndarray, order)} :
             IF r.raised
             THEN pc' = "except" /\ outcome' = "filter_raised" /\ all_data' = all_data
             ELSE pc' = "calculate" /\ outcome' = outcome /\ all_data' = sort_values(r.data)
    /\ UNCHANGED <<files, fi, components, variations, blocks, anchor, k_indices, k_times,
                   slept, gauge, gauge0>>
    /\ UNCHANGED <<quantVars, parseVars, influxVars>>

\* times_float = time_to_float(all_data["DATETIME"]), the columns
\* components[0] and components[1], then calculate_k_index (lines 335-339).
\* The timestamps of the model are the epoch seconds time_to_float yields.
\* times_float keeps the labels of the rows, and minute_time_float[0] is the
\* time of the row labelled 0; a KeyError goes to the except clause.
TestCalculate ==
    /\ pc = "calculate"
    /\ IF Len(all_data) = 0
       THEN /\ pc' = "write"
            /\ anchor' = 0
            /\ blocks' = <<>>
            /\ variations' = <<>>
            /\ k_indices' = <<>>
            /\ k_times' = <<>>
       ELSE IF ~HasLabel(all_data, 0)
       THEN /\ pc' = "except"
            /\ UNCHANGED <<variations, blocks, anchor, k_indices, k_times>>
       ELSE /\ pc' = "write"
            /\ anchor' = day_seconds_start_utc(LabelledTime(all_data, 0))
            /\ blocks' = unique_blocks(all_data, anchor')
            /\ variations' = max_variations(all_data, anchor', blocks',
                                            components[1], components[2])
            /\ k_indices' = k_values_of(variations', k9_limit)
            /\ k_times' = timestamps_of(anchor', blocks')
    /\ UNCHANGED <<files, fi, batch, all_data, components, outcome, slept, gauge, gauge0>>
    /\ UNCHANGED <<quantVars, parseVars, influxVars>>

\* one iteration of: for k, t in zip(k_indices, k_times) (lines 341-345).
\* write_api is synchronous: the call returns when the server has stored the
\* point, or it raises and the cycle goes to the except clause with the
\* points of the earlier iterations in the bucket.
TestWrite ==
    /\ pc = "write"
    /\ wi < Len(k_indices)
    /\ \E raised \in BOOLEAN :
          IF raised
          THEN /\ pc' = "except"
               /\ outcome' = "write_raised"
               /\ UNCHANGED <<influx_bucket, wi>>
          ELSE /\ influx_bucket' = write_point(influx_bucket, k_indices[wi + 1],
                                               k_times[wi + 1])
               /\ wi' = wi + 1
               /\ UNCHANGED <<pc, outcome>>
    /\ UNCHANGED <<files, fi, batch, all_data, components, variations, blocks, anchor,
                   k_indices, k_times, slept, gauge, gauge0>>
    /\ UNCHANGED <<quantVars, parseVars, influx_bucket0>>

\* after the loop (lines 346-348): every pair is written; the figure is
\* plotted next when there is a K-index
TestWritten ==
    /\ pc = "write"
    /\ wi = Len(k_indices)
    /\ IF Len(k_indices) > 0
       THEN pc' = "plot" /\ outcome' = outcome
       ELSE pc' = "sleep" /\ outcome' = "written"
    /\ UNCHANGED <<files, fi, batch, all_data, components, variations, blocks, anchor,
                   k_indices, k_times, slept, gauge, gauge0>>
    /\ UNCHANGED <<quantVars, parseVars, influxVars>>

\* plot_k_indices_with_derivatives(all_data, k_indices, k_times, station_name)
\* (lines 348-349, 254-302): the call is inside the try; it returns, or it
\* raises (plt.subplots, plt.savefig("ENT_Kindex.png")) and the cycle goes to
\* the except clause with every point written.
TestPlot ==
    /\ pc = "plot"
    /\ \E raised \in BOOLEAN :
          IF raised
          THEN pc' = "except" /\ outcome' = "plot_raised"
          ELSE pc' = "sleep" /\ outcome' = "written"
    /\ UNCHANGED <<files, fi, batch, all_data, components, variations, blocks, anchor,
                   k_indices, k_times, slept, gauge, gauge0>>
    /\ UNCHANGED <<quantVars, parseVars, influxVars>>

\* time.sleep(update_interval_minutes * 60), then the next iteration (lines
\* 312, 329 and 352)
TestSleep ==
    /\ pc = "sleep"
    /\ slept' = update_interval_minutes * 60
    /\ pc' = "fetch"
    /\ files' = <<>>
    /\ fi' = 0
    /\ batch' = <<>>
    /\ all_data' = <<>>
    /\ components' = <<>>
    /\ variations' = <<>>
    /\ blocks' = <<>>
    /\ anchor' = 0
    /\ k_indices' = <<>>
    /\ k_times' = <<>>
    /\ UNCHANGED <<outcome, gauge, gauge0>>
    /\ UNCHANGED <<quantVars, parseVars, influxVars>>

\* except Exception: log, time.sleep(60), then the next iteration (lines
\* 354-356)
TestHandleError ==
    /\ pc = "except"
    /\ slept' = ErrorSleepSeconds
    /\ outcome' = "error"
    /\ pc' = "fetch"
    /\ files' = <<>>
    /\ fi' = 0
    /\ batch' = <<>>
    /\ all_data' = <<>>
    /\ components' = <<>>
    /\ variations' = <<>>
    /\ blocks' = <<>>
    /\ anchor' = 0
    /\ k_indices' = <<>>
    /\ k_times' = <<>>
    /\ UNCHANGED <<gauge, gauge0>>
    /\ UNCHANGED <<quantVars, parseVars, influxVars>>

NextTestLoop ==
    \/ TestFetch
    \/ TestReadFile
    \/ TestCheckData
    \/ TestPreprocess
    \/ TestCalculate
    \/ TestWrite
    \/ TestWritten
    \/ TestPlot
    \/ TestSleep
    \/ TestHandleError

SpecTestLoop == InitTestLoop /\ [][NextTestLoop]_vars

\* the interpreter executes the next statement of the loop
FairSpecTestLoop == SpecTestLoop /\ WF_vars(NextTestLoop)

----------------------------------------------------------------------------
(* The loop of test.py as a loop, checked under SpecTestLoop.  The results  *)
(* of a cycle are the points it writes to the bucket.                        *)

\* C8: main_loop never ends on a failure and never stalls, and the only
\* visible effect of a failed cycle is that the cycle produced no results: in
\* the loop of test.py, a cycle in the except clause, or ended by it, has
\* left the bucket as the cycle found it.
C8_FailedCycleNoResults ==
    (pc = "except" \/ (pc = "fetch" /\ outcome = "error")) =>
        influx_bucket = influx_bucket0

\* What holds of the loop of test.py: however a cycle ends, the loop sleeps,
\* 600 s or 60 s after an exception, and then starts a new fetch, and every
\* cycle that starts ends.
C8_TestLoopGoesOn ==
    /\ [](pc \in {"fetch", "read", "preprocess", "calculate", "write", "plot",
                  "sleep", "except"})
    /\ []((pc = "fetch" /\ outcome = "error") => slept = ErrorSleepSeconds)
    /\ []((pc = "fetch" /\ outcome \in {"no_files", "no_data", "written"}) =>
             slept = update_interval_minutes * 60)
    /\ CycleEnded ~> (pc = "fetch" /\ slept > 0)
    /\ (~CycleEnded) ~> CycleEnded

----------------------------------------------------------------------------
(* Properties of the merge, checked under SpecTestLoop *)

\* the samples file k of the cycle yields
Yield(k) == read_iaga2002_test(files[k])

\* the files among the first n that yield a non-empty table
Yielding(n) == {k \in 1..n : Len(Yield(k).data) > 0}

\* the number of merged samples that precede those of file k
SamplesBefore(k) ==
    Cardinality({<<j, i>> \in (1..(k - 1)) \X (1..3) : i <= Len(Yield(j).data)})

\* the samples of file k sit in the merged table, in order, with their
\* timestamps and the values of the file's own triplet
MergedIn(k) ==
    \A i \in DOMAIN Yield(k).data :
        LET row == all_data[SamplesBefore(k) + i]
        IN /\ row.t = Yield(k).data[i].t
           /\ \A c \in DOMAIN Yield(k).comps :
                 row[Yield(k).comps[c]] = Yield(k).data[i].vals[c]

\* C13: the labels of the cycle are those resolved from the first file that
\* yields a non-empty table, no later file changes them, and the samples of
\* every file that yields a table, whatever its triplet, are merged into the
\* one batch.
C13_LabelsOfFirstFile ==
    pc \in {"read", "preprocess"} =>
        /\ components = (IF Yielding(fi - 1) = {} THEN <<>>
                         ELSE Yield(SetMin(Yielding(fi - 1))).comps)
        /\ Len(all_data) = SamplesBefore(fi)
        /\ \A k \in Yielding(fi - 1) : MergedIn(k)

\* a cycle whose labels are X,Y,Z and whose batch holds samples of an H,D,Z
\* file
C13_Witness ==
    /\ pc = "preprocess"
    /\ components = <<"X", "Y", "Z">>
    /\ \E k \in Yielding(Len(files)) : Yield(k).comps = <<"H", "D", "Z">>
    /\ Len(all_data) = 4

----------------------------------------------------------------------------
(* Missing values and the gauge, checked under Spec *)

\* the greater of the two components' ranges over the present values of the
\* samples of block j, 0 for a block of one sample
PresentStatistic(j) ==
    LET S == SamplesOfBlock(anchor, blocks[j])
    IN IF Cardinality(S) > 1
       THEN Max(PresentRange(S, "X"), PresentRange(S, "Y"))
       ELSE 0

\* C14: missing data never inflates the result: every emitted window's
\* statistic is a number >= 0, and its K-index is the quantization of the
\* greater range of the present values of the window, also when a sample
\* with a missing X or Y entry has passed the filter.
C14_MissingNeverInflates ==
    pc = "expose" =>
        \A j \in DOMAIN blocks :
            /\ variations[j] # NaN
            /\ variations[j] >= 0
            /\ k_indices[j] = Reported(GreatestIndex(PresentStatistic(j), k9_limit))

\* What holds of the code: a window none of whose samples lacks an X or Y
\* value is quantized from its ranges; a window with a sample that lacks an X
\* value has no number as statistic and K-index 9.
C14_MissingGivesNine ==
    pc = "expose" =>
        \A j \in DOMAIN blocks :
            LET S == SamplesOfBlock(anchor, blocks[j])
            IN /\ NoMissing(S) =>
                     /\ variations[j] = PresentStatistic(j)
                     /\ k_indices[j] = Reported(GreatestIndex(PresentStatistic(j), k9_limit))
               /\ (Cardinality(S) > 1 /\ \E i \in S : all_data[i].X = NaN) =>
                     (variations[j] = NaN /\ k_indices[j] = 900)

\* the position, in the result sequence, of the window with the greatest
\* block index
LatestWindow == CHOOSE j \in DOMAIN blocks : \A i \in DOMAIN blocks : blocks[i] <= blocks[j]

\* C15: after a cycle that computed a non-empty result sequence the gauge
\* holds the K-index of the window with the greatest block index of that
\* cycle; up to the exposition, and after a cycle without results (no files,
\* no data, no sample left by the filter, an exception) the gauge is what it
\* was when the cycle began.
C15_GaugeHoldsLatest ==
    /\ (pc = "sleep" /\ outcome = "exposed" /\ k_indices # <<>>) =>
          gauge = k_indices[LatestWindow]
    /\ (pc = "sleep" /\ outcome = "exposed" /\ k_indices = <<>>) => gauge = gauge0
    /\ (pc = "sleep" /\ outcome \in {"no_files", "no_data"}) => gauge = gauge0
    /\ pc \in {"read", "preprocess", "calculate", "expose", "except"} => gauge = gauge0
    /\ (pc = "fetch" /\ outcome = "error") => gauge = gauge0

\* a second cycle of several windows has moved the gauge to its last window's
\* K-index, which is not its first window's
C15_Witness ==
    /\ pc = "sleep"
    /\ outcome = "exposed"
    /\ Len(k_indices) >= 2
    /\ gauge0 # 0
    /\ gauge # gauge0
    /\ gauge = k_indices[Len(k_indices)]
    /\ gauge # k_indices[1]

====
